---- MODULE Spec2Model ----
(***************************************************************************)
(* Emily (the sBTC request registry): deposit entries with their event     *)
(* histories, the reorg of an entry around a new canonical tip, and the    *)
(* api-state machine that serialises reorg execution.                      *)
(*                                                                         *)
(*   SpecEntry  one DepositEntry object and the operations on it           *)
(*              (append of an accepted update, reorganize_around).         *)
(*   Spec       the registry: the persisted ApiState and deposit table,    *)
(*              concurrent execute_reorg_handler calls and a chainstate    *)
(*              writer, interleaved at their storage calls.                *)
(*   SpecApi    set_api_state_status calls against a persisted ApiState    *)
(*              that another writer also changes.                          *)
(*   SpecWriters  one execute_reorg_handler call together with an update   *)
(*              applier writing the same entries.                          *)
(*   SpecBatch  the conversion of a submitted batch of deposit updates.    *)
(*   SpecBlock  the signer's new_block_handler: the events of one          *)
(*              notification and the four updates sent to the registry.    *)
(*   SpecSweep  the signer's construct_transactions: the packages of a     *)
(*              set of requests turned into a chain of transactions.       *)
(*   SpecValidate  the signer's BitcoinTxContext::validate on a proposed   *)
(*              sweep transaction.                                         *)
(*   SpecReplay  an execute_reorg_handler call that fails part-way and a   *)
(*              second call for the same tip.                              *)
(*   SpecUnsigned  UnsignedTransaction::new on one package of requests,    *)
(*              and the validation of the transaction it built.            *)
(*   SpecReport  DepositRequestReport::validate on one report.             *)
(*   SpecNetwork  one P2PNetwork on the signal channel: the producers of   *)
(*              signals, the termination handle and the receive calls.     *)
(***************************************************************************)
EXTENDS Integers, Sequences, FiniteSets, TLC

\* ------------------------------------------------------------------ bounds

\* Stacks block heights are 0..MaxHeight.
MaxHeight == 3

\* At most MaxSignals signals are sent to the signal channel.
MaxSignals == 4

\* No history grows beyond MaxHist events (updates are refused beyond it).
MaxHist == 3

\* No entry is updated beyond version MaxVersion (the counter is unbounded in
\* the code).
MaxVersion == 2

\* The version of the persisted ApiState is not written beyond
\* MaxApiVersion + 1 in SpecApi.
MaxApiVersion == 20

\* The update applier of SpecWriters makes at most MaxUpdates calls.
MaxUpdates == 4

\* A submitted batch holds at most MaxBatch updates, at heights
\* 0..MaxBatchHeight.
MaxBatch == 3

MaxBatchHeight == 1

\* A new-block notification carries at most MaxEvents events.
MaxEvents == 2

\* A request set holds at most MaxDeposits deposit requests and
\* MaxWithdrawals withdrawal requests, voted on by MaxSigners signers.
MaxDeposits == 2

MaxWithdrawals == 2

MaxSigners == 3

\* The amounts of the model are AmountBits wide where the program's are 64:
\* an unsigned amount is in 0..2^AmountBits - 1, a signed one in
\* -2^(AmountBits - 1)..2^(AmountBits - 1) - 1.
AmountBits == 9

\* Bitcoin block heights of the deposit reports are 0..MaxTipHeight.
MaxTipHeight == 3

\* A proposed sweep names at most MaxRequestIds withdrawal requests and has
\* at most MaxRequestIds outputs after the signers' two.
MaxRequestIds == 2

Heights == 0..MaxHeight

Hashes == {"a", "b"}

Keys == {"k1", "k2"}

\* ------------------------------------------------------------- data model

\* api::models::chainstate::Chainstate
Chainstates == [stacks_block_height : Heights, stacks_block_hash : Hashes]

\* StatusEntry: the status of an event; Confirmed carries its fulfillment.
StatusEntry(tag, fulfillment) == [tag |-> tag, fulfillment |-> fulfillment]

\* (&StatusEntry).into(): the api Status of a StatusEntry drops the fulfillment.
StatusOf(status_entry) == status_entry.tag

\* The message of the event reorganize_around inserts.
REORG_MESSAGE == "Reprocessing deposit status after reorg."

DepositEvent(status, message, height, hash) ==
    [status |-> status, message |-> message,
     stacks_block_height |-> height, stacks_block_hash |-> hash]

\* The statuses an update carries in this model.
UpdateStatuses ==
    {StatusEntry("Accepted", "none"), StatusEntry("Confirmed", "f1"),
     StatusEntry("Reprocessing", "none")}

UpdateEvents ==
    {DepositEvent(s, "upd", h, x) : s \in UpdateStatuses, h \in Heights, x \in Hashes}

\* ValidatedDepositUpdate
ValidatedDepositUpdates == [key : Keys, event : UpdateEvents]

\* A deposit entry as the registry creates it: one Pending event at the
\* chainstate known at creation, version 0.
NewDepositEntry(key, chainstate) ==
    [key |-> key,
     version |-> 0,
     status |-> "Pending",
     last_update_height |-> chainstate.stacks_block_height,
     last_update_block_hash |-> chainstate.stacks_block_hash,
     history |-> << DepositEvent(StatusEntry("Pending", "none"), "created",
                                 chainstate.stacks_block_height,
                                 chainstate.stacks_block_hash) >>]

\* ------------------------------------------------------ DepositEntry (code)

\* DepositEntry::latest_event: Ok(last event) or Err when the history is empty.
latest_event(entry) ==
    IF entry.history = << >>
    THEN [ok |-> FALSE]
    ELSE [ok |-> TRUE, event |-> entry.history[Len(entry.history)]]

\* DepositEntry::validate: "Ok" or the Debug error.
validate(entry) ==
    LET latest == latest_event(entry) IN
    IF ~latest.ok THEN "Debug"
    ELSE IF entry.last_update_block_hash # latest.event.stacks_block_hash THEN "Debug"
    ELSE IF entry.last_update_height # latest.event.stacks_block_height THEN "Debug"
    ELSE IF entry.status # StatusOf(latest.event.status) THEN "Debug"
    ELSE "Ok"

\* DepositEntry::synchronize_with_history: sets status and last_update_height
\* from the latest event (nothing else); an empty history is an error and
\* leaves the entry as it is.
synchronize_with_history(entry) ==
    LET latest == latest_event(entry) IN
    IF ~latest.ok THEN entry
    ELSE [entry EXCEPT !.status = StatusOf(latest.event.status),
                       !.last_update_height = latest.event.stacks_block_height]

\* Variant of retain_event: every event at the tip's height is kept, whatever
\* its block hash.
retain_event_any_hash(chainstate, event) ==
    chainstate.stacks_block_height >= event.stacks_block_height

\* Variant of retain_event: the height comparison is inverted.
retain_event_inverted(chainstate, event) ==
    (chainstate.stacks_block_height < event.stacks_block_height)
    \/ ((chainstate.stacks_block_height = event.stacks_block_height)
        /\ (chainstate.stacks_block_hash = event.stacks_block_hash))

\* The closure of history.retain in reorganize_around.
retain_event(chainstate, event) ==
    (chainstate.stacks_block_height > event.stacks_block_height)
    \/ ((chainstate.stacks_block_height = event.stacks_block_height)
        /\ (chainstate.stacks_block_hash = event.stacks_block_hash))

\* Vec::retain: the events the closure keeps, in order.
RECURSIVE retain(_, _)
retain(history, chainstate) ==
    IF history = << >> THEN << >>
    ELSE IF retain_event(chainstate, Head(history))
         THEN << Head(history) >> \o retain(Tail(history), chainstate)
         ELSE retain(Tail(history), chainstate)

\* The event reorganize_around puts in place of an emptied history.
reprocessing_event(chainstate) ==
    DepositEvent(StatusEntry("Reprocessing", "none"), REORG_MESSAGE,
                 chainstate.stacks_block_height, chainstate.stacks_block_hash)

\* Variant of reorganize_around: an emptied history is left empty.
reorganize_around_no_placeholder(entry, chainstate) ==
    synchronize_with_history([entry EXCEPT !.history = retain(entry.history, chainstate)])

\* Variant of reorganize_around: the Reprocessing event is pushed whether or
\* not the retained history is empty.
reorganize_around_always_push(entry, chainstate) ==
    synchronize_with_history(
        [entry EXCEPT !.history = Append(retain(entry.history, chainstate),
                                         reprocessing_event(chainstate))])

\* DepositEntry::reorganize_around
reorganize_around(entry, chainstate) ==
    LET retained == retain(entry.history, chainstate)
        history == IF retained = << >>
                   THEN << reprocessing_event(chainstate) >>
                   ELSE retained
    IN synchronize_with_history([entry EXCEPT !.history = history])

\* Variant of ensure_following_event_is_valid: only the heights are compared.
ensure_following_event_ignoring_hash(self, next_event) ==
    IF self.stacks_block_height > next_event.stacks_block_height
    THEN "InconsistentState"
    ELSE "Ok"

\* Variant of ensure_following_event_is_valid: an event at the height of the
\* previous one is refused as well.
ensure_following_event_strictly_later(self, next_event) ==
    IF self.stacks_block_height >= next_event.stacks_block_height
    THEN "InconsistentState"
    ELSE "Ok"

\* DepositEvent::ensure_following_event_is_valid
ensure_following_event_is_valid(self, next_event) ==
    IF self.stacks_block_height > next_event.stacks_block_height
    THEN "InconsistentState"
    ELSE IF self.stacks_block_height = next_event.stacks_block_height
            /\ self.stacks_block_hash # next_event.stacks_block_hash
    THEN "InconsistentState"
    ELSE "Ok"

\* Variant of try_from: the package does not carry the version of the entry.
try_from_no_version(entry, update) ==
    IF update.key # entry.key THEN [result |-> "Debug"]
    ELSE LET latest == latest_event(entry) IN
         IF ~latest.ok THEN [result |-> "Debug"]
         ELSE LET valid == ensure_following_event_is_valid(latest.event, update.event) IN
              IF valid # "Ok" THEN [result |-> valid]
              ELSE [result |-> "Ok", key |-> entry.key,
                    version |-> 0, event |-> update.event]

\* DepositUpdatePackage::try_from
try_from(entry, update) ==
    IF update.key # entry.key THEN [result |-> "Debug"]
    ELSE LET latest == latest_event(entry) IN
         IF ~latest.ok THEN [result |-> "Debug"]
         ELSE LET valid == ensure_following_event_is_valid(latest.event, update.event) IN
              IF valid # "Ok" THEN [result |-> valid]
              ELSE [result |-> "Ok", key |-> entry.key,
                    version |-> entry.version, event |-> update.event]

\* The registry's apply_update on an entry: the packaged event is appended,
\* the version incremented and the event mirrored into the denormalized fields.
apply_package(entry, package) ==
    [entry EXCEPT !.history = Append(entry.history, package.event),
                  !.version = entry.version + 1,
                  !.status = StatusOf(package.event.status),
                  !.last_update_height = package.event.stacks_block_height,
                  !.last_update_block_hash = package.event.stacks_block_hash]

\* ------------------------------------------------- api state machine (code)

Stable(tip) == [kind |-> "Stable", tip |-> tip]

Reorg(tip) == [kind |-> "Reorg", tip |-> tip]

\* Variant of api_status_transition: a reorg requested while another reorg is
\* in progress takes the api over.
api_status_transition_takeover(new_status, current) ==
    IF new_status.kind = current.kind /\ new_status.tip = current.tip
    THEN [return |-> TRUE, ret |-> "OkNone"]
    ELSE [return |-> FALSE, api_status |-> new_status]

\* Variant of api_status_transition: a reorg requested while the same reorg is
\* in progress is reported as inconsistent.
api_status_transition_strict(new_status, current) ==
    IF new_status.kind = "Reorg" /\ current.kind = "Reorg"
    THEN [return |-> TRUE, ret |-> "InconsistentState"]
    ELSE IF new_status.kind = "Stable" /\ current.kind = "Stable"
            /\ new_status.tip = current.tip
    THEN [return |-> TRUE, ret |-> "OkNone"]
    ELSE [return |-> FALSE, api_status |-> new_status]

\* The match on (new_status, original_api_state.api_status) in
\* set_api_state_status: either the call returns, or api_status is assigned.
api_status_transition(new_status, current) ==
    CASE new_status.kind = "Reorg" /\ current.kind = "Stable" ->
            [return |-> FALSE, api_status |-> new_status]
      [] new_status.kind = "Reorg" /\ current.kind = "Reorg" ->
            IF new_status.tip = current.tip
            THEN [return |-> TRUE, ret |-> "OkNone"]
            ELSE [return |-> TRUE, ret |-> "InconsistentState"]
      [] new_status.kind = "Stable" /\ current.kind = "Stable" ->
            IF new_status.tip = current.tip
            THEN [return |-> TRUE, ret |-> "OkNone"]
            ELSE [return |-> FALSE, api_status |-> new_status]
      [] new_status.kind = "Stable" /\ current.kind = "Reorg" ->
            [return |-> FALSE, api_status |-> new_status]

MAX_SET_API_STATE_ATTEMPTS_DURING_REORG == 20

ENTRY_UPDATE_RETRIES == 4

NoChainstate == [stacks_block_height |-> 0, stacks_block_hash |-> "none"]

NoApiState == [api_status |-> [kind |-> "none", tip |-> NoChainstate], version |-> 0]

\* The locals of one set_api_state_status call. at: "read" before
\* get_api_state, "write" before set_api_state, "returned" after the return.
NewCall(new_status) ==
    [new_status |-> new_status, update_attempts |-> 0,
     original_api_state |-> NoApiState, api_state |-> NoApiState,
     at |-> "read", ret |-> "none"]

NoCall ==
    [new_status |-> [kind |-> "none", tip |-> NoChainstate], update_attempts |-> 0,
     original_api_state |-> NoApiState, api_state |-> NoApiState,
     at |-> "none", ret |-> "none"]

\* set_api_state_status, from the top of the loop to the match: the attempt is
\* counted, the api state read, and the match returns or prepares the write.
sas_read(call, stored) ==
    LET t == api_status_transition(call.new_status, stored.api_status) IN
    IF t.return
    THEN [call EXCEPT !.update_attempts = call.update_attempts + 1,
                      !.original_api_state = stored,
                      !.api_state = stored,
                      !.at = "returned", !.ret = t.ret]
    ELSE [call EXCEPT !.update_attempts = call.update_attempts + 1,
                      !.original_api_state = stored,
                      !.api_state = [stored EXCEPT !.api_status = t.api_status],
                      !.at = "write"]

\* accessors::set_api_state: the write succeeds iff the stored version is the
\* version that was read, and stores version + 1.
set_api_state(stored, api_state) ==
    IF stored.version = api_state.version
    THEN [result |-> "Ok",
          stored |-> [api_status |-> api_state.api_status,
                      version |-> stored.version + 1]]
    ELSE [result |-> "VersionConflict", stored |-> stored]

\* Variant of sas_write: the attempts are compared with > instead of >=.
sas_write_one_more_attempt(call, result) ==
    IF result = "Ok"
    THEN [call EXCEPT !.at = "returned", !.ret = "OkSome"]
    ELSE IF result = "VersionConflict"
    THEN IF call.update_attempts > MAX_SET_API_STATE_ATTEMPTS_DURING_REORG
         THEN [call EXCEPT !.at = "returned", !.ret = "InternalServer"]
         ELSE [call EXCEPT !.at = "read"]
    ELSE [call EXCEPT !.at = "returned", !.ret = result]

\* set_api_state_status, the match on the result of set_api_state: Ok breaks
\* out of the loop, a version conflict is retried until the attempts are used
\* up, any other error is returned.
sas_write(call, result) ==
    IF result = "Ok"
    THEN [call EXCEPT !.at = "returned", !.ret = "OkSome"]
    ELSE IF result = "VersionConflict"
    THEN IF call.update_attempts >= MAX_SET_API_STATE_ATTEMPTS_DURING_REORG
         THEN [call EXCEPT !.at = "returned", !.ret = "InternalServer"]
         ELSE [call EXCEPT !.at = "read"]
    ELSE [call EXCEPT !.at = "returned", !.ret = result]

\* -------------------------------------------------- deposit table accessors

\* accessors::set_deposit_entry: the write succeeds iff the stored version is
\* the entry's version; it stores version + 1 and mirrors the last event into
\* the denormalized fields.
set_deposit_entry(stored, entry) ==
    IF stored.version = entry.version
    THEN LET last == entry.history[Len(entry.history)] IN
         [result |-> "Ok",
          stored |-> [entry EXCEPT !.version = entry.version + 1,
                                   !.status = StatusOf(last.status),
                                   !.last_update_height = last.stacks_block_height,
                                   !.last_update_block_hash = last.stacks_block_hash]]
    ELSE [result |-> "VersionConflict", stored |-> stored]

\* The registry's apply_update as a write: the package is applied iff the
\* stored version is the version the package was made from.
update_deposit(stored, package) ==
    IF stored.version = package.version
    THEN [result |-> "Ok", stored |-> apply_package(stored, package)]
    ELSE [result |-> "VersionConflict", stored |-> stored]

\* The order in which a scan of the deposit table returns its entries.
KeyOrder == << "k1", "k2" >>

\* accessors::get_all_deposit_entries_modified_after_height: the keys of the
\* entries whose last_update_height is after the height, in table order.
get_all_deposit_entries_modified_after_height(table, height) ==
    SelectSeq(KeyOrder, LAMBDA k : table[k].last_update_height > height)

\* --------------------------------------------------------------- variables

VARIABLES
    d_entry,    \* SpecEntry: the DepositEntry object
    d_before,   \* SpecEntry: the entry before the last operation
    d_op,       \* SpecEntry: the last operation and its argument
    api_state,  \* Spec: the persisted ApiStateEntry (api_status, version)
    deposits,   \* Spec: the deposit table, key -> DepositEntry
    ex,         \* Spec: the execute_reorg_handler calls, one per executor
    cw,         \* Spec: the chainstate writer's set_api_state_status call
    settled,    \* Spec: the tip of the last undisturbed completed reorg, if any
    up,         \* SpecWriters: the update applier's call
    batch,      \* SpecBatch: the submitted UpdateDepositsRequestBody
    request,    \* SpecBatch: the result of its conversion
    inferred,   \* SpecBatch: the result of inferred_chainstates
    nb,         \* SpecBlock: the locals of the new_block_handler call
    db,         \* SpecBlock: the signer's local event tables
    emily,      \* SpecBlock: the registry calls made, in order
    sw,         \* SpecSweep: the construct_transactions call
    vt,         \* SpecValidate: the BitcoinTxContext::validate call
    rp,         \* SpecReport: the DepositRequestReport::validate call
    ut,         \* SpecUnsigned: the UnsignedTransaction::new call
    net         \* SpecNetwork: the signal channel and the receive call

entry_vars == << d_entry, d_before, d_op >>

registry_vars == << api_state, deposits, ex, cw, settled >>

batch_vars == << batch, request, inferred >>

block_vars == << nb, db, emily >>

unit_vars == << rp, ut, net >>

sweep_vars == << sw, vt, unit_vars >>

aux_vars == << up, batch, request, inferred, nb, db, emily, sw, vt, rp, ut, net >>

vars == << d_entry, d_before, d_op, api_state, deposits, ex, cw, settled,
           up, batch, request, inferred, nb, db, emily, sw, vt, rp, ut, net >>

Executors == {"e1", "e2"}

Genesis == [stacks_block_height |-> 0, stacks_block_hash |-> "a"]

\* The canonical tips the execute_reorg_handler calls of Spec are made with.
ReorgTips ==
    {[stacks_block_height |-> 0, stacks_block_hash |-> "b"],
     [stacks_block_height |-> 1, stacks_block_hash |-> "a"]}

\* The tips the chainstate writes of Spec carry.
ChainstateTips == {Genesis, [stacks_block_height |-> 1, stacks_block_hash |-> "a"]}

\* The updates that were applied to an entry of Spec since its creation at
\* Genesis: none, one, or two on a fork.
AppliedUpdates ==
    {<< >>,
     << DepositEvent(StatusEntry("Accepted", "none"), "upd", 1, "a") >>,
     << DepositEvent(StatusEntry("Accepted", "none"), "upd", 1, "b"),
        DepositEvent(StatusEntry("Confirmed", "f1"), "upd", 2, "b") >>}

\* The entry after the updates were offered to it in turn.
RECURSIVE updated(_, _)
updated(entry, events) ==
    IF events = << >> THEN entry
    ELSE LET package == try_from(entry, [key |-> entry.key, event |-> Head(events)])
         IN updated(IF package.result = "Ok"
                    THEN apply_package(entry, package) ELSE entry,
                    Tail(events))

NoEntry == NewDepositEntry("none", NoChainstate)

IdleExecutor ==
    [pc |-> "idle", tip |-> NoChainstate, claim |-> NoCall, release |-> NoCall,
     all_deposits |-> << >>, attempt |-> 0, entry |-> NoEntry, result |-> "none",
     clean |-> FALSE, replay |-> FALSE]

NotSettled == [set |-> FALSE, tip |-> NoChainstate]

InitRegistry ==
    /\ api_state = [api_status |-> Stable(Genesis), version |-> 0]
    /\ \E applied \in [Keys -> AppliedUpdates] :
        deposits = [k \in Keys |-> updated(NewDepositEntry(k, Genesis), applied[k])]
    /\ ex = [e \in Executors |-> IdleExecutor]
    /\ cw = NoCall
    /\ settled = NotSettled

\* The registry variables while SpecEntry runs: an untouched registry.
InitRegistryIdle ==
    /\ api_state = [api_status |-> Stable(Genesis), version |-> 0]
    /\ deposits = [k \in Keys |-> NewDepositEntry(k, Genesis)]
    /\ ex = [e \in Executors |-> IdleExecutor]
    /\ cw = NoCall
    /\ settled = NotSettled

\* The entry variables while Spec runs.
InitEntryIdle ==
    /\ d_entry = NoEntry
    /\ d_before = NoEntry
    /\ d_op = [kind |-> "none", chainstate |-> NoChainstate, result |-> "none"]

\* No update applier call is in progress.
IdleUpdater ==
    [pc |-> "idle", update |-> [key |-> "none", event |-> NoEntry.history[1]],
     read_version |-> 0, package |-> [result |-> "none"], result |-> "none",
     count |-> 0]

\* The update applier while the other specifications run.
InitWritersIdle == up = IdleUpdater

\* No conversion has been made.
NoRequest == [result |-> "none", deposits |-> << >>]

NoInferred == [result |-> "none", chainstates |-> << >>]

\* The batch variables while the other specifications run.
InitBatchIdle ==
    /\ batch = << >>
    /\ request = NoRequest
    /\ inferred = NoInferred

\* No new_block_handler call is in progress.
\* The contract_event of a transaction event that has none.
NoContractEvent == [contract_identifier |-> "none", topic |-> "none", value |-> "none"]

NoEvent == [committed |-> FALSE, contract_event |-> NoContractEvent]

\* No new_block_handler call is in progress. pc: "events" in the loop over
\* the events, "fanout" from the end of the loop, "done" after the return.
\* seen counts the events taken from the notification; kept and fishy tell
\* whether one of them passed the filter, respectively was a committed print
\* event of another contract.
IdleHandler ==
    [pc |-> "idle", parsed |-> FALSE, seen |-> 0, kept |-> FALSE, fishy |-> FALSE,
     ev |-> NoEvent, res |-> "none",
     completed_deposits |-> << >>, updated_withdrawals |-> << >>,
     created_withdrawals |-> << >>, future |-> 0, awaiting |-> FALSE,
     status |-> 0]

\* The event ingestor's variables while the other specifications run.
InitBlockIdle ==
    /\ nb = IdleHandler
    /\ db = {}
    /\ emily = << >>

\* A signer state with an empty UTXO, and a request set with no request.
NoSignerState ==
    [utxo |-> [outpoint |-> [txid |-> << 0 >>, vout |-> 0], amount |-> 0],
     fee_rate |-> 0]

NoRequests ==
    [deposits |-> << >>, withdrawals |-> << >>, signer_state |-> NoSignerState,
     accept_threshold |-> 0, num_signers |-> 0]

\* No construct_transactions call is in progress. packages are the packages
\* the scan has still to take, state its accumulator, built the transactions
\* it has yielded; result and transactions are what collect returns.
IdleSweep ==
    [pc |-> "idle", requests |-> NoRequests, packages |-> << >>,
     state |-> NoSignerState, built |-> << >>,
     result |-> "none", transactions |-> << >>]

\* A BitcoinTxContext with an empty transaction and no request id.
NoTxContext ==
    [chain_tip_height |-> 0, tx |-> [input |-> << >>, output |-> << >>],
     request_ids |-> << >>]

\* No validate call is in progress. check is the index of the check the
\* call has reached, signer_amount and deposit_amounts the values the input
\* checks returned.
IdleValidate ==
    [pc |-> "idle", ctx |-> NoTxContext, check |-> 0,
     signer_amount |-> 0, deposit_amounts |-> 0, result |-> "none"]

\* No DepositRequestReport::validate call is in progress.
IdleReport ==
    [pc |-> "idle",
     report |-> [found |-> FALSE], chain_tip_height |-> 0, result |-> "none"]

\* No UnsignedTransaction has been built.
NoUnsigned ==
    [requests |-> << >>, tx |-> [input |-> << >>, output |-> << >>],
     fee_per_request |-> 0, signer_utxo |-> NoSignerState]

\* No UnsignedTransaction::new call is in progress. signer_amount is what
\* its compute_signer_amount call returned, validation what the validating
\* signer's validate_withdrawals said of the transaction.
IdleUnsigned ==
    [pc |-> "idle", requests |-> << >>, state |-> NoSignerState, build |-> "none",
     signer_amount |-> [ok |-> FALSE, error |-> "none", amount |-> 0, overflow |-> FALSE],
     result |-> "none", utx |-> NoUnsigned, validation |-> "none"]

\* No network instance exists.
NoSignal == [kind |-> "none", msg |-> 0]

IdleNetwork ==
    [sent |-> << >>, next |-> 1, term |-> FALSE, pc |-> "idle", result |-> NoSignal]

InitUnitIdle == rp = IdleReport /\ ut = IdleUnsigned /\ net = IdleNetwork

InitSweepIdle == sw = IdleSweep /\ vt = IdleValidate /\ InitUnitIdle

InitAuxIdle == InitWritersIdle /\ InitBatchIdle /\ InitBlockIdle /\ InitSweepIdle

\* ---------------------------------------------------------------- SpecEntry

InitEntry ==
    /\ \E chainstate \in Chainstates : d_entry = NewDepositEntry("k1", chainstate)
    /\ d_before = d_entry
    /\ d_op = [kind |-> "create", chainstate |-> NoChainstate, result |-> "Ok"]
    /\ InitRegistryIdle
    /\ InitAuxIdle

\* An update is offered to the entry: try_from decides, an accepted one is applied.
EntryUpdate ==
    /\ Len(d_entry.history) < MaxHist
    /\ d_entry.version < MaxVersion
    /\ \E update \in ValidatedDepositUpdates :
        LET package == try_from(d_entry, update) IN
        /\ d_before' = d_entry
        /\ d_entry' = IF package.result = "Ok"
                      THEN apply_package(d_entry, package) ELSE d_entry
        /\ d_op' = [kind |-> "update", chainstate |-> NoChainstate,
                    result |-> package.result]
    /\ UNCHANGED << registry_vars, aux_vars >>

\* entry.reorganize_around(&chainstate)
EntryReorganize ==
    /\ \E chainstate \in Chainstates :
        /\ d_before' = d_entry
        /\ d_entry' = reorganize_around(d_entry, chainstate)
        /\ d_op' = [kind |-> "reorg", chainstate |-> chainstate, result |-> "Ok"]
    /\ UNCHANGED << registry_vars, aux_vars >>

NextEntry == EntryUpdate \/ EntryReorganize

SpecEntry == InitEntry /\ [][NextEntry]_vars

\* --------------------------------------------------------------------- Spec

\* The fields of an entry other than its version.
Content(entry) ==
    << entry.history, entry.status, entry.last_update_height,
       entry.last_update_block_hash >>

\* execute_reorg_handler after set_api_state_status(Reorg(tip)) returned, or
\* while it is still in its loop.
after_claim(x, call) ==
    IF call.at # "returned" THEN [x EXCEPT !.pc = "claim", !.claim = call]
    ELSE IF call.ret = "OkSome"
    THEN [x EXCEPT !.pc = "get_all", !.claim = call, !.clean = TRUE,
                   !.replay = (settled.set /\ settled.tip = x.tip)]
    ELSE IF call.ret = "OkNone"
    THEN [x EXCEPT !.pc = "done", !.claim = call, !.result = "Ok"]
    ELSE [x EXCEPT !.pc = "done", !.claim = call, !.result = call.ret]

\* execute_reorg_handler after set_api_state_status(Stable(tip)) returned, or
\* while it is still in its loop.
after_release(x, call) ==
    IF call.at # "returned" THEN [x EXCEPT !.release = call]
    ELSE IF call.ret \in {"OkSome", "OkNone"}
    THEN [x EXCEPT !.pc = "done", !.release = call, !.result = "Ok"]
    ELSE [x EXCEPT !.pc = "done", !.release = call, !.result = call.ret]

\* execute_reorg_handler moves on to the next deposit, or to the cleanup of
\* the api state when there is none left.
next_deposit(x, rest) ==
    IF rest = << >>
    THEN [x EXCEPT !.pc = "release", !.all_deposits = rest, !.attempt = 0,
                   !.release = NewCall(Stable(x.tip))]
    ELSE [x EXCEPT !.pc = "entry_read", !.all_deposits = rest, !.attempt = 0]

\* A call of execute_reorg_handler arrives with its canonical tip and makes
\* the first read of the api state.
ExecuteReorgBegin(e) ==
    /\ ex[e].pc = "idle"
    /\ \E tip \in ReorgTips :
        ex' = [ex EXCEPT ![e] =
                 after_claim([ex[e] EXCEPT !.tip = tip],
                             sas_read(NewCall(Reorg(tip)), api_state))]
    /\ UNCHANGED << api_state, deposits, cw, settled, entry_vars, aux_vars >>

\* set_api_state_status(Reorg(tip)): set_api_state.
ClaimWrite(e) ==
    /\ ex[e].pc = "claim" /\ ex[e].claim.at = "write"
    /\ LET w == set_api_state(api_state, ex[e].claim.api_state) IN
        /\ api_state' = w.stored
        /\ ex' = [ex EXCEPT ![e] = after_claim(ex[e], sas_write(ex[e].claim, w.result))]
    /\ UNCHANGED << deposits, cw, settled, entry_vars, aux_vars >>

\* set_api_state_status(Reorg(tip)): the next turn of the loop after a
\* version conflict.
ClaimRead(e) ==
    /\ ex[e].pc = "claim" /\ ex[e].claim.at = "read"
    /\ ex' = [ex EXCEPT ![e] = after_claim(ex[e], sas_read(ex[e].claim, api_state))]
    /\ UNCHANGED << api_state, deposits, cw, settled, entry_vars, aux_vars >>

\* accessors::get_all_deposit_entries_modified_after_height
GetAllDeposits(e) ==
    /\ ex[e].pc = "get_all"
    /\ ex' = [ex EXCEPT ![e] =
                next_deposit(ex[e],
                    get_all_deposit_entries_modified_after_height(
                        deposits, ex[e].tip.stacks_block_height))]
    /\ UNCHANGED << api_state, deposits, cw, settled, entry_vars, aux_vars >>

\* get_deposit_entry and entry.reorganize_around(&request.canonical_tip)
ReadEntry(e) ==
    /\ ex[e].pc = "entry_read"
    /\ ex' = [ex EXCEPT ![e].pc = "entry_write",
                        ![e].entry = reorganize_around(
                                        deposits[Head(ex[e].all_deposits)], ex[e].tip)]
    /\ UNCHANGED << api_state, deposits, cw, settled, entry_vars, aux_vars >>

\* set_deposit_entry and the match on its result: break on Ok; on a version
\* conflict the next attempt, and after the last attempt the next deposit.
WriteEntry(e) ==
    /\ ex[e].pc = "entry_write"
    /\ LET k == Head(ex[e].all_deposits)
           w == set_deposit_entry(deposits[k], ex[e].entry)
       IN /\ deposits' = [deposits EXCEPT ![k] = w.stored]
          /\ IF w.result = "Ok"
             THEN /\ ex' = [o \in Executors |->
                              IF o = e
                              THEN next_deposit(ex[e], Tail(ex[e].all_deposits))
                              ELSE [ex[o] EXCEPT !.clean = FALSE]]
                  /\ settled' = IF settled.set /\ settled.tip = ex[e].tip
                                THEN settled ELSE NotSettled
             ELSE /\ ex' = [ex EXCEPT ![e] =
                              IF ex[e].attempt + 1 < ENTRY_UPDATE_RETRIES
                              THEN [ex[e] EXCEPT !.pc = "entry_read",
                                                 !.attempt = ex[e].attempt + 1]
                              ELSE next_deposit([ex[e] EXCEPT !.clean = FALSE],
                                                Tail(ex[e].all_deposits))]
                  /\ UNCHANGED settled
    /\ UNCHANGED << api_state, cw, entry_vars, aux_vars >>

\* set_api_state_status(Stable(tip)): get_api_state and the match.
ReleaseRead(e) ==
    /\ ex[e].pc = "release" /\ ex[e].release.at = "read"
    /\ LET x == after_release(ex[e], sas_read(ex[e].release, api_state)) IN
        /\ ex' = [ex EXCEPT ![e] = x]
        /\ settled' = IF x.pc = "done" /\ x.result = "Ok" /\ x.clean
                      THEN [set |-> TRUE, tip |-> x.tip] ELSE settled
    /\ UNCHANGED << api_state, deposits, cw, entry_vars, aux_vars >>

\* set_api_state_status(Stable(tip)): set_api_state.
ReleaseWrite(e) ==
    /\ ex[e].pc = "release" /\ ex[e].release.at = "write"
    /\ LET w == set_api_state(api_state, ex[e].release.api_state)
           x == after_release(ex[e], sas_write(ex[e].release, w.result))
       IN /\ api_state' = w.stored
          /\ ex' = [ex EXCEPT ![e] = x]
          /\ settled' = IF x.pc = "done" /\ x.result = "Ok" /\ x.clean
                        THEN [set |-> TRUE, tip |-> x.tip] ELSE settled
    /\ UNCHANGED << deposits, cw, entry_vars, aux_vars >>

\* A chainstate write arrives: set_api_state_status(Stable(tip)), first read.
SetChainstateBegin ==
    /\ cw.at = "none"
    /\ \E tip \in ChainstateTips : cw' = sas_read(NewCall(Stable(tip)), api_state)
    /\ UNCHANGED << api_state, deposits, ex, settled, entry_vars, aux_vars >>

\* The chainstate write: set_api_state.
SetChainstateWrite ==
    /\ cw.at = "write"
    /\ LET w == set_api_state(api_state, cw.api_state) IN
        /\ api_state' = w.stored
        /\ cw' = sas_write(cw, w.result)
    /\ UNCHANGED << deposits, ex, settled, entry_vars, aux_vars >>

\* The chainstate write: the next turn of the loop after a version conflict.
SetChainstateRead ==
    /\ cw.at = "read"
    /\ cw' = sas_read(cw, api_state)
    /\ UNCHANGED << api_state, deposits, ex, settled, entry_vars, aux_vars >>

Next ==
    \/ \E e \in Executors :
        \/ ExecuteReorgBegin(e)
        \/ ClaimWrite(e)
        \/ ClaimRead(e)
        \/ GetAllDeposits(e)
        \/ ReadEntry(e)
        \/ WriteEntry(e)
        \/ ReleaseRead(e)
        \/ ReleaseWrite(e)
    \/ SetChainstateBegin
    \/ SetChainstateWrite
    \/ SetChainstateRead

Init == InitRegistry /\ InitEntryIdle /\ InitAuxIdle

Spec == Init /\ [][Next]_vars

\* --------------------------------------------------------------- SpecReplay
\* An execute_reorg_handler call that is ended by a storage error, and a
\* later call with the same canonical tip, with the chainstate writer.

\* The executor of the first call, and the executor of the later call.
FirstCaller == "e1"

Replayer == "e2"

\* The call of e met a storage error after set_api_state_status(Reorg(tip))
\* returned Ok(Some): get_all_deposit_entries_modified_after_height,
\* get_deposit_entry or set_deposit_entry returned an error other than
\* VersionConflict, and `?` returns it from the handler.
ExecutorFails(e) ==
    /\ ex[e].pc \in {"get_all", "entry_read", "entry_write"}
    /\ ex' = [ex EXCEPT ![e].pc = "done", ![e].result = "StorageError"]
    /\ UNCHANGED << api_state, deposits, cw, settled, entry_vars, aux_vars >>

\* A call of execute_reorg_handler arrives with the canonical tip of a call
\* that a storage error ended, and makes the first read of the api state.
ReplayBegin(e) ==
    /\ ex[e].pc = "idle"
    /\ \E o \in Executors \ {e} :
        /\ ex[o].pc = "done" /\ ex[o].result = "StorageError"
        /\ ex' = [ex EXCEPT ![e] =
                     after_claim([ex[e] EXCEPT !.tip = ex[o].tip],
                                 sas_read(NewCall(Reorg(ex[o].tip)), api_state))]
    /\ UNCHANGED << api_state, deposits, cw, settled, entry_vars, aux_vars >>

NextReplay ==
    \/ ExecuteReorgBegin(FirstCaller)
    \/ ExecutorFails(FirstCaller)
    \/ ReplayBegin(Replayer)
    \/ \E e \in Executors :
        \/ ClaimWrite(e)
        \/ ClaimRead(e)
        \/ GetAllDeposits(e)
        \/ ReadEntry(e)
        \/ WriteEntry(e)
        \/ ReleaseRead(e)
        \/ ReleaseWrite(e)
    \/ SetChainstateBegin
    \/ SetChainstateWrite
    \/ SetChainstateRead

SpecReplay == Init /\ [][NextReplay]_vars

\* ------------------------------------------------------------------ SpecApi
\* One caller of set_api_state_status at a time, and the other writers of the
\* persisted ApiState.

\* The statuses that are requested and stored in SpecApi.
ApiStatuses ==
    {Stable(t) : t \in ChainstateTips} \cup {Reorg(t) : t \in ReorgTips}

InitApi ==
    /\ api_state = [api_status |-> Stable(Genesis), version |-> 0]
    /\ deposits = [k \in Keys |-> NewDepositEntry(k, Genesis)]
    /\ ex = [e \in Executors |-> IdleExecutor]
    /\ cw = NoCall
    /\ settled = NotSettled
    /\ InitEntryIdle
    /\ InitAuxIdle

\* A call of set_api_state_status(new_status) and its first read.
SasBegin ==
    /\ cw.at \in {"none", "returned"}
    /\ api_state.version < MaxApiVersion
    /\ \E new_status \in ApiStatuses : cw' = sas_read(NewCall(new_status), api_state)
    /\ UNCHANGED << api_state, deposits, ex, settled, entry_vars, aux_vars >>

\* set_api_state answers Ok or VersionConflict.
SasWrite ==
    /\ cw.at = "write"
    /\ LET w == set_api_state(api_state, cw.api_state) IN
        /\ api_state' = w.stored
        /\ cw' = sas_write(cw, w.result)
    /\ UNCHANGED << deposits, ex, settled, entry_vars, aux_vars >>

\* set_api_state fails with an error of the storage, writing nothing.
SasWriteFails ==
    /\ cw.at = "write"
    /\ cw' = sas_write(cw, "Storage")
    /\ UNCHANGED << api_state, deposits, ex, settled, entry_vars, aux_vars >>

\* The next turn of the loop after a version conflict.
SasRead ==
    /\ cw.at = "read"
    /\ cw' = sas_read(cw, api_state)
    /\ UNCHANGED << api_state, deposits, ex, settled, entry_vars, aux_vars >>

\* Another caller's write of the ApiState succeeds.
OtherWriter ==
    /\ api_state.version < MaxApiVersion
    /\ \E s \in ApiStatuses :
        /\ ~api_status_transition(s, api_state.api_status).return
        /\ api_state' = [api_status |-> s, version |-> api_state.version + 1]
    /\ UNCHANGED << deposits, ex, cw, settled, entry_vars, aux_vars >>

NextApi == SasBegin \/ SasWrite \/ SasWriteFails \/ SasRead \/ OtherWriter

SpecApi == InitApi /\ [][NextApi]_vars

\* -------------------------------------------------------------- SpecWriters
\* One execute_reorg_handler call and an update applier, interleaved at their
\* reads and writes of the deposit table. Nothing else writes the ApiState, so
\* the executor's writes of it meet no version conflict.

\* The updates the applier of SpecWriters is given.
WriterUpdates ==
    {[key |-> k, event |-> DepositEvent(StatusEntry("Accepted", "none"), "upd", c[1], c[2])] :
        k \in Keys, c \in {<< 1, "a" >>, << 2, "b" >>}}

InitWriters == InitRegistry /\ InitEntryIdle /\ InitAuxIdle

\* An update arrives: the entry is read and DepositUpdatePackage::try_from
\* makes the package, or refuses the update.
UpdateRead ==
    /\ up.pc = "idle"
    /\ up.count < MaxUpdates
    /\ \E update \in WriterUpdates :
        LET entry == deposits[update.key]
            package == try_from(entry, update)
        IN up' = [pc |-> IF package.result = "Ok" THEN "write" ELSE "idle",
                  update |-> update,
                  read_version |-> entry.version,
                  package |-> package,
                  result |-> IF package.result = "Ok" THEN "none" ELSE package.result,
                  count |-> up.count + 1]
    /\ UNCHANGED << registry_vars, entry_vars, batch_vars, block_vars, sweep_vars >>

\* The package is written.
UpdateWrite ==
    /\ up.pc = "write"
    /\ LET k == up.update.key
           w == update_deposit(deposits[k], up.package)
       IN /\ deposits' = [deposits EXCEPT ![k] = w.stored]
          /\ up' = [up EXCEPT !.pc = "idle", !.result = w.result]
          /\ IF w.result = "Ok"
             THEN /\ ex' = [e \in Executors |-> [ex[e] EXCEPT !.clean = FALSE]]
                  /\ settled' = NotSettled
             ELSE UNCHANGED << ex, settled >>
    /\ UNCHANGED << api_state, cw, entry_vars, batch_vars, block_vars, sweep_vars >>

NextWriters ==
    \/ ExecuteReorgBegin("e1")
    \/ ClaimWrite("e1")
    \/ GetAllDeposits("e1")
    \/ ReadEntry("e1")
    \/ WriteEntry("e1")
    \/ ReleaseRead("e1")
    \/ ReleaseWrite("e1")
    \/ UpdateRead
    \/ UpdateWrite

SpecWriters == InitWriters /\ [][NextWriters]_vars

\* ---------------------------------------------------------------- SpecBatch
\* The conversion of a submitted batch of deposit updates.

\* The status and the optional fulfillment of a submitted DepositUpdate.
BatchStatuses ==
    {<< "Accepted", "none" >>, << "Accepted", "f1" >>,
     << "Confirmed", "f1" >>, << "Confirmed", "none" >>}

\* api::models::deposit::requests::DepositUpdate
DepositUpdates ==
    {[key |-> "k1", status |-> s[1], fulfillment |-> s[2],
      last_update_height |-> h, last_update_block_hash |-> x] :
        s \in BatchStatuses, h \in 0..MaxBatchHeight, x \in Hashes}

\* UpdateDepositsRequestBody: the submitted batches.
UpdateDepositsRequestBodies ==
    UNION {[1..n -> DepositUpdates] : n \in 0..MaxBatch}

\* ValidatedDepositUpdate::try_from(DepositUpdate)
validated_deposit_update(update) ==
    IF update.status = "Confirmed" /\ update.fulfillment = "none"
    THEN [result |-> "InternalServer"]
    ELSE [result |-> "Ok",
          update |->
            [key |-> update.key,
             event |-> DepositEvent(
                 StatusEntry(update.status,
                             IF update.status = "Confirmed"
                             THEN update.fulfillment ELSE "none"),
                 "upd", update.last_update_height, update.last_update_block_hash)]]

\* enumerate().map(try_into): each update with its index in the request.
enumerated(body) ==
    [i \in DOMAIN body |->
        [index |-> i - 1, validated |-> validated_deposit_update(body[i])]]

\* One insertion of the stable sort: the pair goes after every pair whose
\* height is not above its own.
RECURSIVE insert_by_key(_, _)
insert_by_key(sorted, pair) ==
    IF sorted = << >> THEN << pair >>
    ELSE IF sorted[Len(sorted)].update.event.stacks_block_height
                <= pair.update.event.stacks_block_height
         THEN Append(sorted, pair)
         ELSE Append(insert_by_key(SubSeq(sorted, 1, Len(sorted) - 1), pair),
                     sorted[Len(sorted)])

\* deposits.sort_by_key(|(_, update)| update.event.stacks_block_height)
RECURSIVE sort_by_key(_)
sort_by_key(pairs) ==
    IF pairs = << >> THEN << >>
    ELSE insert_by_key(sort_by_key(SubSeq(pairs, 1, Len(pairs) - 1)),
                       pairs[Len(pairs)])

\* Variant of validated_request_try_from: an update that does not validate
\* is left out and the others are converted.
validated_request_skip_invalid(body) ==
    LET all == enumerated(body)
        valid == SelectSeq(all, LAMBDA pair : pair.validated.result = "Ok")
    IN [result |-> "Ok",
        deposits |-> sort_by_key([i \in DOMAIN valid |->
                          [index |-> valid[i].index,
                           update |-> valid[i].validated.update]])]

\* Variant of validated_request_try_from: the indexes are given after the sort.
validated_request_index_after_sort(body) ==
    LET all == enumerated(body) IN
    IF \E i \in DOMAIN all : all[i].validated.result # "Ok"
    THEN [result |-> "InternalServer", deposits |-> << >>]
    ELSE LET sorted == sort_by_key([i \in DOMAIN all |->
                            [index |-> all[i].index,
                             update |-> all[i].validated.update]])
         IN [result |-> "Ok",
             deposits |-> [i \in DOMAIN sorted |->
                             [index |-> i - 1, update |-> sorted[i].update]]]

\* ValidatedUpdateDepositsRequest::try_from(UpdateDepositsRequestBody): the
\* first error of the validations, or the indexed updates sorted by height.
validated_request_try_from(body) ==
    LET all == enumerated(body) IN
    IF \E i \in DOMAIN all : all[i].validated.result # "Ok"
    THEN [result |-> "InternalServer", deposits |-> << >>]
    ELSE [result |-> "Ok",
          deposits |-> sort_by_key([i \in DOMAIN all |->
                            [index |-> all[i].index,
                             update |-> all[i].validated.update]])]

\* The sequences that hold each chainstate of the set once, in an order of
\* non-decreasing height (the order a HashSet is iterated in is not fixed, the
\* sort is stable).
sorted_by_height(chainstates) ==
    {seq \in [1..Cardinality(chainstates) -> chainstates] :
        /\ \A i, j \in DOMAIN seq : i # j => seq[i] # seq[j]
        /\ \A i, j \in DOMAIN seq :
            i < j => seq[i].stacks_block_height <= seq[j].stacks_block_height}

\* ValidatedUpdateDepositsRequest::inferred_chainstates: the results it can
\* give, all of them Ok.
inferred_chainstates(validated) ==
    LET chainstates ==
            {[stacks_block_height |-> validated[i].update.event.stacks_block_height,
              stacks_block_hash |-> validated[i].update.event.stacks_block_hash] :
                i \in DOMAIN validated}
    IN {[result |-> "Ok", chainstates |-> seq] : seq \in sorted_by_height(chainstates)}

InitBatch ==
    /\ batch \in UpdateDepositsRequestBodies
    /\ request = NoRequest
    /\ inferred = NoInferred
    /\ InitRegistryIdle
    /\ InitEntryIdle
    /\ InitWritersIdle
    /\ InitBlockIdle
    /\ InitSweepIdle

\* The submitted batch is converted.
ConvertBatch ==
    /\ request.result = "none"
    /\ request' = validated_request_try_from(batch)
    /\ UNCHANGED << batch, inferred, registry_vars, entry_vars, up, block_vars, sweep_vars >>

\* The chainstates of the converted batch are inferred.
InferChainstates ==
    /\ request.result = "Ok"
    /\ inferred.result = "none"
    /\ \E r \in inferred_chainstates(request.deposits) : inferred' = r
    /\ UNCHANGED << batch, request, registry_vars, entry_vars, up, block_vars, sweep_vars >>

NextBatch == ConvertBatch \/ InferChainstates

SpecBatch == InitBatch /\ [][NextBatch]_vars

\* ---------------------------------------------------------------- SpecBlock
\* One call of new_block_handler: the notification, its events one after the
\* other, and the four updates sent to the registry.

\* The identifier of the sbtc-registry contract of the configured deployer.
SBTC_REGISTRY_IDENTIFIER == "deployer.sbtc-registry"

ContractIdentifiers == {SBTC_REGISTRY_IDENTIFIER, "fishy.sbtc-registry"}

Topics == {"print", "other"}

\* The Clarity values of the events: the four registry events, and a value
\* that is none of them.
EventValues ==
    {"completed-deposit", "withdrawal-accept", "withdrawal-reject",
     "withdrawal-create", "garbage"}

\* stacks::webhooks::TransactionEvent: committed, and the contract event if any.
TransactionEvents ==
    {[committed |-> c, contract_event |-> NoContractEvent] : c \in BOOLEAN} \cup
    {[committed |-> c,
      contract_event |-> [contract_identifier |-> id, topic |-> t, value |-> v]] :
        c \in BOOLEAN, id \in ContractIdentifiers, t \in Topics, v \in EventValues}

\* The outcomes of the write of the typed record to the local storage.
WriteOutcomes == {"Ok", "SqlxQuery", "SqlxCommitTransaction"}

\* The outcomes of the reads the update is built from.
BuildOutcomes == {"Ok", "SqlxQuery", "Missing"}

\* Variant of kept_event: the contract identifier is not compared.
kept_event_any_contract(event, registry_address) ==
    /\ event.committed
    /\ event.contract_event # NoContractEvent
    /\ event.contract_event.topic = "print"

\* The three filters on new_block_event.events.
kept_event(event, registry_address) ==
    /\ event.committed
    /\ event.contract_event # NoContractEvent
    /\ event.contract_event.contract_identifier = registry_address
    /\ event.contract_event.topic = "print"

\* RegistryEvent::try_new
try_new(value) ==
    IF value = "garbage"
    THEN [ok |-> FALSE]
    ELSE [ok |-> TRUE, event |-> value]

\* Variant of handle_event: the update is built first, and the record is
\* written when that succeeded.
handle_event_build_first(event, write, build) ==
    LET missing == IF event = "withdrawal-create"
                   THEN "MissingBlock" ELSE "BitcoinTxMissing"
    IN IF event # "withdrawal-reject" /\ build # "Ok"
       THEN [written |-> FALSE, res |-> IF build = "Missing" THEN missing ELSE build]
       ELSE IF write # "Ok"
       THEN [written |-> FALSE, res |-> write]
       ELSE [written |-> TRUE, res |-> "Ok"]

\* handle_completed_deposit, handle_withdrawal_accept, handle_withdrawal_reject
\* and handle_withdrawal_create: the record is written, then the update is
\* built (for a rejection nothing is read to build it).
handle_event(event, write, build) ==
    LET missing == IF event = "withdrawal-create"
                   THEN "MissingBlock" ELSE "BitcoinTxMissing"
    IN IF write # "Ok"
       THEN [written |-> FALSE, res |-> write]
       ELSE IF event = "withdrawal-reject" \/ build = "Ok"
       THEN [written |-> TRUE, res |-> "Ok"]
       ELSE [written |-> TRUE, res |-> IF build = "Missing" THEN missing ELSE build]

\* Variant of event_outcome: every error is answered with 500.
event_outcome_every_error(res) ==
    IF res # "Ok" THEN "return" ELSE "continue"

\* The test of res at the end of the loop body: a SqlxQuery error ends the
\* call with 500, any other result lets the loop go on.
event_outcome(res) ==
    IF res = "SqlxQuery" THEN "return" ELSE "continue"

\* The futures of the fan-out, in the order of the vector.
futures ==
    << "update_deposits", "update_withdrawals", "create_withdrawals", "set_chainstate" >>

\* Variant of next_future: the loop over the futures ends at the first error.
next_future_until_error(future, result) ==
    IF result = "Err" THEN Len(futures) + 1 ELSE future + 1

\* The loop over the futures goes on to the next one whatever the result.
next_future(future, result) == future + 1

\* The argument of a future of the fan-out.
future_argument(x, future) ==
    CASE future = 1 -> x.completed_deposits
      [] future = 2 -> x.updated_withdrawals
      [] future = 3 -> x.created_withdrawals
      [] OTHER -> << >>

InitBlock ==
    /\ nb = IdleHandler
    /\ db = {}
    /\ emily = << >>
    /\ InitRegistryIdle
    /\ InitEntryIdle
    /\ InitWritersIdle
    /\ InitBatchIdle
    /\ InitSweepIdle

\* The webhook arrives; a body that does not deserialize is answered 200.
NewBlockReceive ==
    /\ nb.pc = "idle"
    /\ \E parses \in BOOLEAN :
        nb' = IF parses
              THEN [nb EXCEPT !.pc = "events", !.parsed = TRUE]
              ELSE [nb EXCEPT !.pc = "done", !.status = 200]
    /\ UNCHANGED << db, emily, registry_vars, entry_vars, up, batch_vars, sweep_vars >>

\* The next event of the notification does not pass the filters.
NewBlockSkipEvent ==
    /\ nb.pc = "events"
    /\ nb.seen < MaxEvents
    /\ \E event \in TransactionEvents :
        /\ ~kept_event(event, SBTC_REGISTRY_IDENTIFIER)
        /\ nb' = [nb EXCEPT !.seen = nb.seen + 1, !.ev = event,
                             !.fishy = nb.fishy \/
                                 (/\ event.committed
                                  /\ event.contract_event.topic = "print"
                                  /\ event.contract_event.contract_identifier
                                        \notin {"none", SBTC_REGISTRY_IDENTIFIER})]
    /\ UNCHANGED << db, emily, registry_vars, entry_vars, up, batch_vars, sweep_vars >>

\* The next event passes the filters: the body of the loop.
NewBlockHandleEvent ==
    /\ nb.pc = "events"
    /\ nb.seen < MaxEvents
    /\ \E event \in TransactionEvents, write \in WriteOutcomes, build \in BuildOutcomes :
        /\ kept_event(event, SBTC_REGISTRY_IDENTIFIER)
        /\ LET id == nb.seen + 1
               x == [nb EXCEPT !.seen = id, !.ev = event, !.kept = TRUE]
               registry_event == try_new(event.contract_event.value)
           IN IF ~registry_event.ok
              THEN /\ nb' = [x EXCEPT !.pc = "done", !.status = 200,
                                      !.res = "InvalidEvent"]
                   /\ db' = db
              ELSE LET h == handle_event(registry_event.event, write, build)
                       pushed ==
                           IF h.res # "Ok" THEN x
                           ELSE IF registry_event.event = "completed-deposit"
                           THEN [x EXCEPT !.completed_deposits = Append(@, id)]
                           ELSE IF registry_event.event = "withdrawal-create"
                           THEN [x EXCEPT !.created_withdrawals = Append(@, id)]
                           ELSE [x EXCEPT !.updated_withdrawals = Append(@, id)]
                   IN /\ db' = IF h.written
                               THEN db \cup {[table |-> registry_event.event, id |-> id]}
                               ELSE db
                      /\ nb' = IF event_outcome(h.res) = "return"
                               THEN [pushed EXCEPT !.res = h.res, !.pc = "done",
                                                   !.status = 500]
                               ELSE [pushed EXCEPT !.res = h.res]
    /\ UNCHANGED << emily, registry_vars, entry_vars, up, batch_vars, sweep_vars >>

\* The notification holds no further event: the loop ends.
NewBlockEventsEnd ==
    /\ nb.pc = "events"
    /\ nb' = [nb EXCEPT !.pc = "fanout", !.future = 1, !.ev = NoEvent]
    /\ UNCHANGED << db, emily, registry_vars, entry_vars, up, batch_vars, sweep_vars >>

\* The next future is awaited: its call of the registry starts.
FanOutCall ==
    /\ nb.pc = "fanout"
    /\ ~nb.awaiting
    /\ emily' = Append(emily, [call |-> futures[nb.future], phase |-> "start",
                               argument |-> future_argument(nb, nb.future),
                               result |-> "none"])
    /\ nb' = [nb EXCEPT !.awaiting = TRUE]
    /\ UNCHANGED << db, registry_vars, entry_vars, up, batch_vars, sweep_vars >>

\* The awaited call completes, with or without error; after the last future
\* the handler answers 200.
FanOutComplete ==
    /\ nb.pc = "fanout"
    /\ nb.awaiting
    /\ \E result \in {"Ok", "Err"} :
        LET next == next_future(nb.future, result) IN
        /\ emily' = Append(emily, [call |-> futures[nb.future], phase |-> "end",
                                   argument |-> << >>, result |-> result])
        /\ nb' = IF next > Len(futures)
                 THEN [nb EXCEPT !.awaiting = FALSE, !.future = next,
                                 !.pc = "done", !.status = 200]
                 ELSE [nb EXCEPT !.awaiting = FALSE, !.future = next]
    /\ UNCHANGED << db, registry_vars, entry_vars, up, batch_vars, sweep_vars >>

NextBlock ==
    \/ NewBlockReceive
    \/ NewBlockSkipEvent
    \/ NewBlockHandleEvent
    \/ NewBlockEventsEnd
    \/ FanOutCall
    \/ FanOutComplete

SpecBlock == InitBlock /\ [][NextBlock]_vars

\* ---------------------------------------------------------------- SpecSweep
\* One call of SbtcRequests::construct_transactions: the packages, then one
\* UnsignedTransaction per package, chained by the signers' UTXO.

\* Amounts in sats of the requests of SpecSweep; all far below
\* 2^(AmountBits - 1), so the casts and the sums of compute_signer_amount
\* are exact there.
RequestAmounts == {3, 20}

DepositAmounts == {20}

SignerAmounts == {4, 40}

FeeRates == {0, 2}

\* The votes against a request.
VotesAgainst == {0, 1, 2}

\* The signer bitmap with v votes against: v entries false, the others true.
Bitmap(v) == [i \in 1..MaxSigners |-> i > v]

\* The txid of a transaction the packager is given is << n >>; the txid
\* of a transaction it builds is computed by compute_txid.
DepositRequest(n, amount, votes) ==
    [kind |-> "deposit", id |-> n,
     outpoint |-> [txid |-> << n >>, vout |-> 1],
     amount |-> amount, signer_bitmap |-> Bitmap(votes)]

WithdrawalRequest(n, amount, votes) ==
    [kind |-> "withdrawal", id |-> n,
     outpoint |-> [txid |-> << 0 >>, vout |-> 0],
     amount |-> amount, signer_bitmap |-> Bitmap(votes)]

\* The deposit lists and the withdrawal lists of a request set: the n-th
\* deposit spends the outpoint of transaction << n >>, the n-th withdrawal
\* pays to the address n.
DepositLists ==
    UNION {{[i \in 1..n |-> DepositRequest(i, a[i], v[i])] :
                a \in [1..n -> DepositAmounts], v \in [1..n -> VotesAgainst]} :
           n \in 0..MaxDeposits}

WithdrawalLists ==
    UNION {{[i \in 1..n |-> WithdrawalRequest(i, a[i], v[i])] :
                a \in [1..n -> RequestAmounts], v \in [1..n -> VotesAgainst]} :
           n \in 0..MaxWithdrawals}

SignerBtcStates ==
    {[utxo |-> [outpoint |-> [txid |-> << 0 >>, vout |-> 0], amount |-> a],
      fee_rate |-> r] : a \in SignerAmounts, r \in FeeRates}

saturating_sub(a, b) == IF a >= b THEN a - b ELSE 0

\* The value that stands for the panic of a division by zero.
DivisionByZero == 0 - 1

\* u64::div_ceil panics when the divisor is zero.
div_ceil(a, b) == IF b = 0 THEN DivisionByZero ELSE (a + b - 1) \div b

\* `x as i64` of an unsigned amount: the same bits read as a signed amount.
as_i64(x) == IF x >= 2^(AmountBits - 1) THEN x - 2^AmountBits ELSE x

\* The signed amount an addition or subtraction wraps to.
wrapping(x) ==
    ((x + 2^(AmountBits - 1)) % 2^AmountBits) - 2^(AmountBits - 1)

\* DepositRequest::votes_against and WithdrawalRequest::votes_against
votes_against(req) ==
    Cardinality({i \in DOMAIN req.signer_bitmap : ~req.signer_bitmap[i]})

\* Weighted for Request
weight(req) == votes_against(req)

\* Variant of reject_capacity: the capacity is the number of signers.
reject_capacity_all_signers(requests) == requests.num_signers

\* SbtcRequests::reject_capacity
reject_capacity(requests) ==
    saturating_sub(requests.num_signers, requests.accept_threshold)

\* The request sets: every request can be approved on its own.
SbtcRequestSets ==
    {r \in [deposits : DepositLists, withdrawals : WithdrawalLists,
            signer_state : SignerBtcStates,
            accept_threshold : {MaxSigners - 2, MaxSigners + 1},
            num_signers : {MaxSigners}] :
        /\ \A i \in DOMAIN r.deposits : weight(r.deposits[i]) <= reject_capacity(r)
        /\ \A i \in DOMAIN r.withdrawals : weight(r.withdrawals[i]) <= reject_capacity(r)}

RECURSIVE total_weight(_)
total_weight(package) ==
    IF package = << >> THEN 0
    ELSE weight(Head(package)) + total_weight(Tail(package))

RECURSIVE insert_by_weight(_, _)
insert_by_weight(sorted, item) ==
    IF sorted = << >> THEN << item >>
    ELSE IF weight(Head(sorted)) >= weight(item)
    THEN << Head(sorted) >> \o insert_by_weight(Tail(sorted), item)
    ELSE << item >> \o sorted

\* The items by decreasing weight, items of one weight in their given order.
RECURSIVE sort_by_weight(_)
sort_by_weight(items) ==
    IF items = << >> THEN << >>
    ELSE insert_by_weight(sort_by_weight(SubSeq(items, 1, Len(items) - 1)),
                          items[Len(items)])

RECURSIVE first_fit(_, _, _)
first_fit(items, packages, max_weight) ==
    IF items = << >> THEN packages
    ELSE LET item == Head(items)
             fits == {k \in DOMAIN packages :
                         total_weight(packages[k]) + weight(item) <= max_weight}
         IN IF fits = {}
            THEN first_fit(Tail(items), Append(packages, << item >>), max_weight)
            ELSE LET k == CHOOSE k \in fits : \A j \in fits : k <= j
                 IN first_fit(Tail(items),
                              [packages EXCEPT ![k] = Append(@, item)], max_weight)

\* packaging::compute_optimal_packages: first fit, by decreasing weight.
compute_optimal_packages(items, max_weight) ==
    first_fit(sort_by_weight(items), << >>, max_weight)

\* Transaction::vsize: the virtual size grows with the inputs, their witness
\* data and the outputs.
vsize(tx) ==
    LET witness_size(i) ==
            IF tx.input[i].witness = "empty" THEN 0
            ELSE IF tx.input[i].witness = "key_spend" THEN 1 ELSE 2
        RECURSIVE inputs_size(_)
        inputs_size(n) == IF n = 0 THEN 0 ELSE 1 + witness_size(n) + inputs_size(n - 1)
    IN 1 + inputs_size(Len(tx.input)) + Len(tx.output)

\* Transaction::compute_txid: the witness data is not part of the txid.
compute_txid(tx) ==
    << [i \in DOMAIN tx.input |-> tx.input[i].previous_output], tx.output >>

\* UnsignedTransaction::compute_signer_amount
\* The fold over the requests, on signed amounts: acc.amount is the running
\* amount as the wrapping arithmetic gives it, acc.overflow tells whether an
\* addition or subtraction so far left the signed range.
RECURSIVE fold_signer_amount(_, _)
fold_signer_amount(acc, reqs) ==
    IF reqs = << >> THEN acc
    ELSE LET exact == IF Head(reqs).kind = "deposit"
                      THEN acc.amount + as_i64(Head(reqs).amount)
                      ELSE acc.amount - as_i64(Head(reqs).amount)
         IN fold_signer_amount(
                [amount |-> wrapping(exact),
                 overflow |-> acc.overflow \/ wrapping(exact) # exact],
                Tail(reqs))

\* Variant of compute_signer_amount: the deposits are not counted.
compute_signer_amount_without_deposits(reqs, state) ==
    LET acc == fold_signer_amount(
                   [amount |-> as_i64(state.utxo.amount), overflow |-> FALSE],
                   SelectSeq(reqs, LAMBDA r : r.kind = "withdrawal"))
    IN IF acc.amount < 0
       THEN [ok |-> FALSE, error |-> "InvalidAmount", amount |-> acc.amount,
             overflow |-> acc.overflow]
       ELSE [ok |-> TRUE, error |-> "none", amount |-> acc.amount,
             overflow |-> acc.overflow]

\* The result for the build whose arithmetic wraps; overflow tells that the
\* build with overflow checks panics instead.
compute_signer_amount(reqs, state) ==
    LET acc == fold_signer_amount(
                   [amount |-> as_i64(state.utxo.amount), overflow |-> FALSE], reqs)
    IN IF acc.amount < 0
       THEN [ok |-> FALSE, error |-> "InvalidAmount", amount |-> acc.amount,
             overflow |-> acc.overflow]
       ELSE [ok |-> TRUE, error |-> "none", amount |-> acc.amount,
             overflow |-> acc.overflow]

\* DepositRequest::as_tx_input, with the witness data of the deposit script.
deposit_as_tx_input(req) ==
    [previous_output |-> req.outpoint, witness |-> "script_spend"]

\* WithdrawalRequest::as_tx_output
withdrawal_as_tx_output(req) ==
    [value |-> req.amount, script_pubkey |-> << "withdrawal", req.id >>]

\* SignerUtxo::as_tx_input
signer_as_tx_input(utxo) ==
    [previous_output |-> utxo.outpoint, witness |-> "key_spend"]

\* SignerUtxo::new_tx_output
new_tx_output(sats) == [value |-> sats, script_pubkey |-> << "signers", 0 >>]

\* Variant of new_transaction: only the first withdrawal gets an output.
new_transaction_one_withdrawal(reqs, state) ==
    LET deposit_reqs == SelectSeq(reqs, LAMBDA r : r.kind = "deposit")
        withdrawal_reqs == SelectSeq(reqs, LAMBDA r : r.kind = "withdrawal")
        signer_output_sats == compute_signer_amount(reqs, state)
    IN IF ~signer_output_sats.ok
       THEN [ok |-> FALSE, error |-> signer_output_sats.error,
             overflow |-> signer_output_sats.overflow]
       ELSE [ok |-> TRUE, overflow |-> signer_output_sats.overflow,
             tx |-> [input |-> << signer_as_tx_input(state.utxo) >> \o
                               [i \in DOMAIN deposit_reqs |-> deposit_as_tx_input(deposit_reqs[i])],
                     output |-> << new_tx_output(signer_output_sats.amount) >> \o
                                [i \in DOMAIN withdrawal_reqs \cap {1} |->
                                     withdrawal_as_tx_output(withdrawal_reqs[i])]]]

\* UnsignedTransaction::new_transaction
new_transaction(reqs, state) ==
    LET deposit_reqs == SelectSeq(reqs, LAMBDA r : r.kind = "deposit")
        withdrawal_reqs == SelectSeq(reqs, LAMBDA r : r.kind = "withdrawal")
        signer_output_sats == compute_signer_amount(reqs, state)
    IN IF ~signer_output_sats.ok
       THEN [ok |-> FALSE, error |-> signer_output_sats.error,
             overflow |-> signer_output_sats.overflow]
       ELSE [ok |-> TRUE, overflow |-> signer_output_sats.overflow,
             tx |-> [input |-> << signer_as_tx_input(state.utxo) >> \o
                               [i \in DOMAIN deposit_reqs |-> deposit_as_tx_input(deposit_reqs[i])],
                     output |-> << new_tx_output(signer_output_sats.amount) >> \o
                                [i \in DOMAIN withdrawal_reqs |->
                                     withdrawal_as_tx_output(withdrawal_reqs[i])]]]

\* UnsignedTransaction::compute_request_fee
compute_request_fee(tx, fee_rate) ==
    LET tx_fee == vsize(tx) * fee_rate
        num_requests == saturating_sub(Len(tx.input) + Len(tx.output), 2)
    IN div_ceil(tx_fee, num_requests)

\* UnsignedTransaction::adjust_amounts
adjust_amounts(tx, fee) ==
    LET num_requests == saturating_sub(Len(tx.input) + Len(tx.output), 2)
        deposit_fees == fee * (Len(tx.input) - 1)
    IN IF num_requests = 0 THEN tx
       ELSE [tx EXCEPT !.output =
                [i \in DOMAIN tx.output |->
                    IF i = 1
                    THEN [tx.output[i] EXCEPT !.value = saturating_sub(@, deposit_fees)]
                    ELSE [tx.output[i] EXCEPT !.value = saturating_sub(@, fee)]]]

\* UnsignedTransaction::reset_witness_data
reset_witness_data(tx) ==
    [tx EXCEPT !.input = [i \in DOMAIN tx.input |-> [tx.input[i] EXCEPT !.witness = "empty"]]]

\* UnsignedTransaction::new
unsigned_transaction_new(requests, state) ==
    LET stub == new_transaction(requests, state) IN
    IF ~stub.ok THEN [ok |-> FALSE, error |-> stub.error, overflow |-> stub.overflow]
    ELSE LET fee == compute_request_fee(stub.tx, state.fee_rate) IN
         IF fee = DivisionByZero
         THEN [ok |-> FALSE, error |-> "panic: division by zero",
               overflow |-> stub.overflow]
         ELSE LET tx == reset_witness_data(adjust_amounts(stub.tx, fee))
              IN [ok |-> TRUE, overflow |-> stub.overflow,
                  utx |-> [requests |-> requests, tx |-> tx,
                           fee_per_request |-> fee, signer_utxo |-> state]]

\* Variant of new_signer_utxo: the amount of the UTXO is carried over
\* unchanged from the spent one.
new_signer_utxo_same_amount(utx) ==
    [outpoint |-> [txid |-> compute_txid(utx.tx), vout |-> 0],
     amount |-> utx.signer_utxo.utxo.amount]

\* UnsignedTransaction::new_signer_utxo
new_signer_utxo(utx) ==
    [outpoint |-> [txid |-> compute_txid(utx.tx), vout |-> 0],
     amount |-> utx.tx.output[1].value]

InitSweep ==
    /\ \E requests \in SbtcRequestSets :
        sw = [IdleSweep EXCEPT !.requests = requests, !.state = requests.signer_state]
    /\ vt = IdleValidate
    /\ InitUnitIdle
    /\ InitRegistryIdle
    /\ InitEntryIdle
    /\ InitWritersIdle
    /\ InitBatchIdle
    /\ InitBlockIdle

\* construct_transactions is called: no request gives the empty list; else
\* the requests, the deposits first, are put into packages.
SweepBegin ==
    /\ sw.pc = "idle"
    /\ LET requests == sw.requests
           items == requests.deposits \o requests.withdrawals
       IN sw' = IF requests.deposits = << >> /\ requests.withdrawals = << >>
                THEN [sw EXCEPT !.pc = "done", !.result = "Ok"]
                ELSE [sw EXCEPT !.pc = "scan",
                                !.packages = compute_optimal_packages(
                                                 items, reject_capacity(requests))]
    /\ UNCHANGED << vt, unit_vars, registry_vars, entry_vars, up, batch_vars, block_vars >>

\* The scan takes the next package: its transaction is built on the state,
\* which takes the new signers' UTXO; collect stops at the first error.
SweepNext ==
    /\ sw.pc = "scan"
    /\ sw.packages # << >>
    /\ LET tx == unsigned_transaction_new(Head(sw.packages), sw.state)
       IN sw' = IF tx.ok
                THEN [sw EXCEPT !.packages = Tail(@),
                                !.state.utxo = new_signer_utxo(tx.utx),
                                !.built = Append(@, tx.utx)]
                ELSE [sw EXCEPT !.packages = Tail(@), !.pc = "done",
                                !.result = tx.error]
    /\ UNCHANGED << vt, unit_vars, registry_vars, entry_vars, up, batch_vars, block_vars >>

\* No package is left: collect returns the transactions.
SweepCollect ==
    /\ sw.pc = "scan"
    /\ sw.packages = << >>
    /\ sw' = [sw EXCEPT !.pc = "done", !.result = "Ok", !.transactions = sw.built]
    /\ UNCHANGED << vt, unit_vars, registry_vars, entry_vars, up, batch_vars, block_vars >>

NextSweep == SweepBegin \/ SweepNext \/ SweepCollect

SpecSweep == InitSweep /\ [][NextSweep]_vars

\* ------------------------------------------------------------- SpecValidate
\* One call of BitcoinTxContext::validate on a proposed sweep transaction,
\* against the validating signer's storage.

\* The scriptPubKey storage knows as the signers', and another one.
SIGNERS_SCRIPT == << "signers", 0 >>

OTHER_SCRIPT == << "other", 0 >>

\* Blocks of margin before a deposit's lock-time.
DEPOSIT_LOCKTIME_BLOCK_BUFFER == 3

\* The chain tip height of the contexts.
ChainTipHeight == 2

\* db.get_bitcoin_tx: storage holds transaction << 0 >>, whose output 0 is the
\* signers' and whose output 1 is not.
get_bitcoin_tx(txid) ==
    IF txid = << 0 >>
    THEN [found |-> TRUE,
          output |-> << [value |-> 40, script_pubkey |-> SIGNERS_SCRIPT],
                        [value |-> 5, script_pubkey |-> OTHER_SCRIPT] >>]
    ELSE [found |-> FALSE, output |-> << >>]

\* db.is_signer_script_pub_key
is_signer_script_pub_key(script) == script = SIGNERS_SCRIPT

\* DepositRequestReport
DepositReport(n, status, height, can_sign, is_accepted, lock_time) ==
    [found |-> TRUE, outpoint |-> [txid |-> << n >>, vout |-> 1],
     status |-> status, block_height |-> height,
     can_sign |-> can_sign, is_accepted |-> is_accepted,
     amount |-> 30, lock_time |-> lock_time]

Blocks(n) == [unit |-> "Blocks", value |-> n]

\* db.get_deposit_request_report: storage has a report that passes for
\* deposit 1, a Spent one for deposit 2, a rejected one for deposit 4, and
\* none for any other outpoint.
get_deposit_request_report(outpoint) ==
    LET lock_time == Blocks(DEPOSIT_LOCKTIME_BLOCK_BUFFER + 3) IN
    CASE outpoint = [txid |-> << 1 >>, vout |-> 1] ->
            DepositReport(1, "Confirmed", 0, "Some(true)", "Some(true)", lock_time)
      [] outpoint = [txid |-> << 2 >>, vout |-> 1] ->
            DepositReport(2, "Spent", 0, "Some(true)", "Some(true)", lock_time)
      [] outpoint = [txid |-> << 4 >>, vout |-> 1] ->
            DepositReport(4, "Confirmed", 0, "Some(true)", "Some(false)", lock_time)
      [] OTHER -> [found |-> FALSE]

\* WithdrawalRequestReport
WithdrawalReport(id, status, amount, recipient, max_fee) ==
    [found |-> TRUE, id |-> id, status |-> status, amount |-> amount,
     recipient |-> recipient, max_fee |-> max_fee]

\* db.get_withdrawal_request: request 1 is Confirmed, request 2 Fulfilled,
\* request 3 not on record.
get_withdrawal_request(id) ==
    CASE id = 1 -> WithdrawalReport(1, "Confirmed", 10, << "withdrawal", 1 >>, 5)
      [] id = 2 -> WithdrawalReport(2, "Fulfilled", 20, << "withdrawal", 2 >>, 5)
      [] OTHER -> [found |-> FALSE]

\* The inputs of the proposed transactions: none, or a signers' input
\* followed by at most one deposit input.
SignerPrevouts ==
    {[txid |-> << 0 >>, vout |-> 0], [txid |-> << 0 >>, vout |-> 1],
     [txid |-> << 0 >>, vout |-> 2], [txid |-> << 9 >>, vout |-> 0]}

DepositPrevouts == {[txid |-> << n >>, vout |-> 1] : n \in 1..4}

TxInputs ==
    {<< >>} \cup
    {<< [previous_output |-> p, witness |-> "empty"] >> : p \in SignerPrevouts} \cup
    {<< [previous_output |-> p, witness |-> "empty"],
        [previous_output |-> d, witness |-> "empty"] >> :
        p \in SignerPrevouts, d \in DepositPrevouts}

\* The outputs after the signers' two.
WithdrawalOutputs ==
    [value : {10, 20}, script_pubkey : {<< "withdrawal", 1 >>, << "withdrawal", 2 >>}]

\* The outputs of the proposed transactions: none, the first output alone,
\* or the first output, an OP_RETURN output and at most MaxRequestIds others.
TxOutputs ==
    LET first == [value : {20, 28}, script_pubkey : {SIGNERS_SCRIPT, OTHER_SCRIPT}]
        op_return == [value |-> 0, script_pubkey |-> << "op_return", 0 >>]
    IN {<< >>} \cup {<< f >> : f \in first} \cup
       UNION {{<< f, op_return >> \o w : f \in first, w \in [1..n -> WithdrawalOutputs]} :
              n \in 0..MaxRequestIds}

RequestIdLists == UNION {[1..n -> 1..3] : n \in 0..MaxRequestIds}

BitcoinTxContexts ==
    [chain_tip_height : {ChainTipHeight},
     tx : [input : TxInputs, output : TxOutputs],
     request_ids : RequestIdLists]

\* Variant of deposit_report_validate: the signer's vote on the request is
\* looked at before whether it can sign.
deposit_report_validate_vote_first(report, chain_tip_height) ==
    IF report.status = "Unconfirmed" THEN "Deposit::TxNotOnBestChain"
    ELSE IF report.status = "Spent" THEN "Deposit::DepositUtxoSpent"
    ELSE IF report.is_accepted # "Some(true)" THEN "Deposit::RejectedRequest"
    ELSE IF report.can_sign = "None" THEN "Deposit::NoVote"
    ELSE IF report.can_sign = "Some(false)" THEN "Deposit::CannotSignUtxo"
    ELSE LET deposit_age == saturating_sub(chain_tip_height, report.block_height) IN
         IF report.lock_time.unit = "Blocks"
         THEN LET max_age == saturating_sub(report.lock_time.value,
                                            DEPOSIT_LOCKTIME_BLOCK_BUFFER)
              IN IF deposit_age >= max_age THEN "Deposit::LockTimeExpiry" ELSE "Ok"
         ELSE "Deposit::UnsupportedLockTime"

\* Variant of deposit_report_validate: a deposit whose age is the greatest
\* allowed passes.
deposit_report_validate_strict_age(report, chain_tip_height) ==
    IF report.status = "Unconfirmed" THEN "Deposit::TxNotOnBestChain"
    ELSE IF report.status = "Spent" THEN "Deposit::DepositUtxoSpent"
    ELSE IF report.can_sign = "None" THEN "Deposit::NoVote"
    ELSE IF report.can_sign = "Some(false)" THEN "Deposit::CannotSignUtxo"
    ELSE IF report.is_accepted # "Some(true)" THEN "Deposit::RejectedRequest"
    ELSE LET deposit_age == saturating_sub(chain_tip_height, report.block_height) IN
         IF report.lock_time.unit = "Blocks"
         THEN LET max_age == saturating_sub(report.lock_time.value,
                                            DEPOSIT_LOCKTIME_BLOCK_BUFFER)
              IN IF deposit_age > max_age THEN "Deposit::LockTimeExpiry" ELSE "Ok"
         ELSE "Deposit::UnsupportedLockTime"

\* DepositRequestReport::validate
deposit_report_validate(report, chain_tip_height) ==
    IF report.status = "Unconfirmed" THEN "Deposit::TxNotOnBestChain"
    ELSE IF report.status = "Spent" THEN "Deposit::DepositUtxoSpent"
    ELSE IF report.can_sign = "None" THEN "Deposit::NoVote"
    ELSE IF report.can_sign = "Some(false)" THEN "Deposit::CannotSignUtxo"
    ELSE IF report.is_accepted # "Some(true)" THEN "Deposit::RejectedRequest"
    ELSE LET deposit_age == saturating_sub(chain_tip_height, report.block_height) IN
         IF report.lock_time.unit = "Blocks"
         THEN LET max_age == saturating_sub(report.lock_time.value,
                                            DEPOSIT_LOCKTIME_BLOCK_BUFFER)
              IN IF deposit_age >= max_age THEN "Deposit::LockTimeExpiry" ELSE "Ok"
         ELSE "Deposit::UnsupportedLockTime"

\* Variant of withdrawal_report_validate: the recipient is compared before
\* the amount.
withdrawal_report_validate_recipient_first(report, utxo) ==
    IF report.status = "Fulfilled" THEN "Withdrawal::Unknown"
    ELSE IF report.recipient # utxo.script_pubkey
    THEN "Withdrawal::IncorrectWithdrawalRecipient"
    ELSE IF report.amount # utxo.value THEN "Withdrawal::IncorrectWithdrawalAmount"
    ELSE "Ok"

\* WithdrawalRequestReport::validate
withdrawal_report_validate(report, utxo) ==
    IF report.status = "Fulfilled" THEN "Withdrawal::Unknown"
    ELSE IF report.amount # utxo.value THEN "Withdrawal::IncorrectWithdrawalAmount"
    ELSE IF report.recipient # utxo.script_pubkey
    THEN "Withdrawal::IncorrectWithdrawalRecipient"
    ELSE "Ok"

\* BitcoinTxContext::validate_signer_input
validate_signer_input(ctx) ==
    IF ctx.tx.input = << >>
    THEN [result |-> "SignerInput::MissingInputs", amount |-> 0]
    ELSE LET prevout == ctx.tx.input[1].previous_output
             signer_tx == get_bitcoin_tx(prevout.txid)
         IN IF ~signer_tx.found
            THEN [result |-> "SignerInput::InvalidPrevout", amount |-> 0]
            ELSE IF prevout.vout + 1 > Len(signer_tx.output)
            THEN [result |-> "SignerInput::PrevoutMissingFromSourceTx", amount |-> 0]
            ELSE LET utxo == signer_tx.output[prevout.vout + 1] IN
                 IF ~is_signer_script_pub_key(utxo.script_pubkey)
                 THEN [result |-> "SignerInput::InvalidPrevout", amount |-> 0]
                 ELSE [result |-> "Ok", amount |-> utxo.value]

\* BitcoinTxContext::validate_signer_outputs
validate_signer_outputs(ctx) ==
    IF ctx.tx.output = << >>
    THEN [result |-> "SignerOutput::InvalidOpReturnOutput", amount |-> 0]
    ELSE IF ~is_signer_script_pub_key(ctx.tx.output[1].script_pubkey)
    THEN [result |-> "SignerOutput::InvalidOpReturnOutput", amount |-> 0]
    ELSE [result |-> "Ok", amount |-> 0]

\* The loop of validate_deposits from input i on, with the amount so far.
RECURSIVE deposits_loop(_, _, _)
deposits_loop(ctx, i, deposit_amount) ==
    IF i > Len(ctx.tx.input) THEN [result |-> "Ok", amount |-> deposit_amount]
    ELSE LET report == get_deposit_request_report(ctx.tx.input[i].previous_output) IN
         IF ~report.found THEN [result |-> "Deposit::Unknown", amount |-> 0]
         ELSE LET res == deposit_report_validate(report, ctx.chain_tip_height) IN
              IF res # "Ok" THEN [result |-> res, amount |-> 0]
              ELSE deposits_loop(ctx, i + 1, deposit_amount + report.amount)

\* BitcoinTxContext::validate_deposits
validate_deposits(ctx) == deposits_loop(ctx, 2, 0)

\* The loop of validate_withdrawals from the i-th request id on.
\* storage is the withdrawal reports of the validating signer, by request id.
RECURSIVE withdrawals_loop(_, _, _)
withdrawals_loop(storage, ctx, i) ==
    IF i > Len(ctx.request_ids) \/ i + 2 > Len(ctx.tx.output)
    THEN [result |-> "Ok", amount |-> 0]
    ELSE LET report == IF ctx.request_ids[i] \in DOMAIN storage
                       THEN storage[ctx.request_ids[i]] ELSE [found |-> FALSE]
         IN
         IF ~report.found THEN [result |-> "Withdrawal::Unknown", amount |-> 0]
         ELSE LET res == withdrawal_report_validate(report, ctx.tx.output[i + 2]) IN
              IF res # "Ok" THEN [result |-> res, amount |-> 0]
              ELSE withdrawals_loop(storage, ctx, i + 1)

\* BitcoinTxContext::validate_withdrawals, against the given storage.
validate_withdrawals_in(storage, ctx) ==
    IF Len(ctx.tx.output) # Len(ctx.request_ids) + 2
    THEN [result |-> "Withdrawal::Unknown", amount |-> 0]
    ELSE withdrawals_loop(storage, ctx, 1)

\* The withdrawal reports of the storage of SpecValidate.
withdrawal_reports == [id \in 1..2 |-> get_withdrawal_request(id)]

\* Variant of validate_withdrawals: the number of outputs is not checked.
validate_withdrawals_any_count(ctx) == withdrawals_loop(withdrawal_reports, ctx, 1)

\* BitcoinTxContext::validate_withdrawals, against the storage of
\* SpecValidate.
validate_withdrawals(ctx) == validate_withdrawals_in(withdrawal_reports, ctx)

\* BitcoinTxContext::validate_fees
validate_fees(ctx, input_amounts) == [result |-> "Ok", amount |-> 0]

\* Variant of validate_checks: the signers' output and the withdrawals are
\* checked before the deposits.
validate_checks_outputs_first ==
    << "signer_input", "signer_outputs", "withdrawals", "deposits", "fees" >>

\* BitcoinTxContext::validate: the checks in the order it makes them.
validate_checks ==
    << "signer_input", "deposits", "signer_outputs", "withdrawals", "fees" >>

\* The check of a given name on the context of the call x.
run_check(name, x) ==
    CASE name = "signer_input" -> validate_signer_input(x.ctx)
      [] name = "deposits" -> validate_deposits(x.ctx)
      [] name = "signer_outputs" -> validate_signer_outputs(x.ctx)
      [] name = "withdrawals" -> validate_withdrawals(x.ctx)
      [] OTHER -> validate_fees(x.ctx, x.signer_amount + x.deposit_amounts)

InitValidate ==
    /\ sw = IdleSweep
    /\ \E ctx \in BitcoinTxContexts : vt = [IdleValidate EXCEPT !.ctx = ctx]
    /\ InitUnitIdle
    /\ InitRegistryIdle
    /\ InitEntryIdle
    /\ InitWritersIdle
    /\ InitBatchIdle
    /\ InitBlockIdle

\* validate is called on the context.
ValidateBegin ==
    /\ vt.pc = "idle"
    /\ vt' = [vt EXCEPT !.pc = "checks", !.check = 1]
    /\ UNCHANGED << sw, unit_vars, registry_vars, entry_vars, up, batch_vars, block_vars >>

\* The next check is made: an error is returned at once.
ValidateCheck ==
    /\ vt.pc = "checks"
    /\ vt.check <= Len(validate_checks)
    /\ LET name == validate_checks[vt.check]
           res == run_check(name, vt)
       IN vt' = IF res.result # "Ok"
                THEN [vt EXCEPT !.pc = "done", !.result = res.result]
                ELSE [vt EXCEPT !.check = vt.check + 1,
                                !.signer_amount =
                                    IF name = "signer_input" THEN res.amount ELSE @,
                                !.deposit_amounts =
                                    IF name = "deposits" THEN res.amount ELSE @]
    /\ UNCHANGED << sw, unit_vars, registry_vars, entry_vars, up, batch_vars, block_vars >>

\* Every check passed: validate returns Ok.
ValidateReturn ==
    /\ vt.pc = "checks"
    /\ vt.check > Len(validate_checks)
    /\ vt' = [vt EXCEPT !.pc = "done", !.result = "Ok"]
    /\ UNCHANGED << sw, unit_vars, registry_vars, entry_vars, up, batch_vars, block_vars >>

NextValidate == ValidateBegin \/ ValidateCheck \/ ValidateReturn

SpecValidate == InitValidate /\ [][NextValidate]_vars

\* ------------------------------------------------------------- SpecUnsigned
\* One call of UnsignedTransaction::new on a list of requests, in a build
\* with or without overflow checks, and the validating signer's
\* validate_withdrawals on the transaction it returns.

\* The amounts of the signers' UTXO and of the requests: small ones, and
\* ones at the ends of the signed and unsigned ranges.
UtxoAmounts == {4, 40, 2^(AmountBits - 1) - 1, 2^(AmountBits - 1), 2^AmountBits - 1}

LargeDepositAmounts == {20, 2^(AmountBits - 1) - 1, 2^(AmountBits - 1)}

LargeWithdrawalAmounts == {3, 20, 2^(AmountBits - 1)}

\* The request lists: the deposits, then the withdrawals; none at all is one
\* of them.
RequestLists ==
    {d \o w :
        d \in UNION {{[i \in 1..n |-> DepositRequest(i, a[i], 0)] :
                         a \in [1..n -> LargeDepositAmounts]} : n \in 0..MaxDeposits},
        w \in UNION {{[i \in 1..n |-> WithdrawalRequest(i, a[i], 0)] :
                         a \in [1..n -> LargeWithdrawalAmounts]} : n \in 0..MaxWithdrawals}}

\* debug: overflow checks are on and an overflow panics; release: they are
\* off and the arithmetic wraps.
Builds == {"debug", "release"}

\* The storage of a validating signer that has every withdrawal request of
\* the list on record as Confirmed, with its amount and recipient.
storage_of(requests) ==
    LET withdrawal_reqs == SelectSeq(requests, LAMBDA r : r.kind = "withdrawal")
        ids == {withdrawal_reqs[i].id : i \in DOMAIN withdrawal_reqs}
        req(id) == CHOOSE r \in {withdrawal_reqs[i] : i \in DOMAIN withdrawal_reqs} : r.id = id
    IN [id \in ids |->
           WithdrawalReport(id, "Confirmed", req(id).amount,
                            withdrawal_as_tx_output(req(id)).script_pubkey,
                            req(id).amount)]

\* The context the transaction is presented in: the ids of its withdrawal
\* requests, in order.
context_of(utx) ==
    LET withdrawal_reqs == SelectSeq(utx.requests, LAMBDA r : r.kind = "withdrawal")
    IN [chain_tip_height |-> ChainTipHeight, tx |-> utx.tx,
        request_ids |-> [i \in DOMAIN withdrawal_reqs |-> withdrawal_reqs[i].id]]

InitUnsigned ==
    /\ \E requests \in RequestLists, a \in UtxoAmounts, r \in FeeRates, b \in Builds :
           ut = [IdleUnsigned EXCEPT
                    !.requests = requests,
                    !.state = [utxo |-> [outpoint |-> [txid |-> << 0 >>, vout |-> 0],
                                         amount |-> a],
                               fee_rate |-> r],
                    !.build = b]
    /\ rp = IdleReport
    /\ net = IdleNetwork
    /\ sw = IdleSweep
    /\ vt = IdleValidate
    /\ InitRegistryIdle
    /\ InitEntryIdle
    /\ InitWritersIdle
    /\ InitBatchIdle
    /\ InitBlockIdle

\* UnsignedTransaction::new is called: an overflow of the sum panics in the
\* build with overflow checks.
UnsignedNew ==
    /\ ut.pc = "idle"
    /\ LET res == unsigned_transaction_new(ut.requests, ut.state)
           amount == compute_signer_amount(ut.requests, ut.state)
       IN ut' = IF res.overflow /\ ut.build = "debug"
                THEN [ut EXCEPT !.pc = "failed", !.signer_amount = amount,
                                !.result = "panic: arithmetic overflow"]
                ELSE IF res.ok
                THEN [ut EXCEPT !.pc = "built", !.signer_amount = amount,
                                !.result = "Ok", !.utx = res.utx]
                ELSE [ut EXCEPT !.pc = "failed", !.signer_amount = amount,
                                !.result = res.error]
    /\ UNCHANGED << rp, net, sw, vt, registry_vars, entry_vars, up, batch_vars, block_vars >>

\* The validating signer runs validate_withdrawals on the transaction.
UnsignedValidate ==
    /\ ut.pc = "built"
    /\ ut' = [ut EXCEPT !.pc = "validated",
                        !.validation = validate_withdrawals_in(
                                           storage_of(ut.requests),
                                           context_of(ut.utx)).result]
    /\ UNCHANGED << rp, net, sw, vt, registry_vars, entry_vars, up, batch_vars, block_vars >>

NextUnsigned == UnsignedNew \/ UnsignedValidate

SpecUnsigned == InitUnsigned /\ [][NextUnsigned]_vars

\* --------------------------------------------------------------- SpecReport
\* One call of DepositRequestReport::validate on a report and a chain tip
\* height.

Time(n) == [unit |-> "Time", value |-> n]

\* The lock-times of the reports: block counts around the buffer, and one in
\* units of time.
LockTimes ==
    {Blocks(n) : n \in 0..(DEPOSIT_LOCKTIME_BLOCK_BUFFER + MaxTipHeight)} \cup {Time(1)}

OptionBools == {"None", "Some(false)", "Some(true)"}

DepositRequestReports ==
    {DepositReport(1, "Unconfirmed", 0, c, a, l) :
        c \in OptionBools, a \in OptionBools, l \in LockTimes} \cup
    {DepositReport(1, "Spent", 0, c, a, l) :
        c \in OptionBools, a \in OptionBools, l \in LockTimes} \cup
    UNION {{DepositReport(1, "Confirmed", h, c, a, l) :
                c \in OptionBools, a \in OptionBools, l \in LockTimes} :
           h \in 0..MaxTipHeight}

InitReport ==
    /\ \E report \in DepositRequestReports, h \in 0..MaxTipHeight :
           rp = [IdleReport EXCEPT !.report = report, !.chain_tip_height = h]
    /\ ut = IdleUnsigned
    /\ net = IdleNetwork
    /\ sw = IdleSweep
    /\ vt = IdleValidate
    /\ InitRegistryIdle
    /\ InitEntryIdle
    /\ InitWritersIdle
    /\ InitBatchIdle
    /\ InitBlockIdle

\* validate is called on the report.
ReportValidate ==
    /\ rp.pc = "idle"
    /\ rp' = [rp EXCEPT !.pc = "done",
                        !.result = deposit_report_validate(rp.report, rp.chain_tip_height)]
    /\ UNCHANGED << ut, net, sw, vt, registry_vars, entry_vars, up, batch_vars, block_vars >>

NextReport == ReportValidate

SpecReport == InitReport /\ [][NextReport]_vars

\* -------------------------------------------------------------- SpecNetwork
\* One P2PNetwork and the signal channel of its context. The channel is a
\* tokio broadcast channel: it retains the last ChannelCapacity values sent,
\* every receiver reads from its own cursor, and a receiver whose cursor has
\* fallen behind the retained values is told so by an error on its next recv
\* and continues from the oldest retained value. The P2PNetwork holds a
\* sender of the channel itself, so the channel is never closed while it
\* receives.

\* net.sent is every signal sent so far, net.next the position of the next
\* signal the receiver reads, net.term whether shutdown has been signalled.

ChannelCapacity == 2

Msgs == 1..2

MessageReceived(msg) == [kind |-> "MessageReceived", msg |-> msg]

P2PPublish(msg) == [kind |-> "P2PPublish", msg |-> msg]

P2PPublishSuccess(msg) == [kind |-> "P2PPublishSuccess", msg |-> msg]

\* The position of the oldest value the channel still holds.
oldest_retained(sent) ==
    IF Len(sent) > ChannelCapacity THEN Len(sent) - ChannelCapacity + 1 ELSE 1

\* signal_rx.recv() when a value or an error is ready: Err(Lagged) moves the
\* cursor to the oldest retained value, Ok(value) moves it past the value.
signal_rx_recv(sent, next) ==
    IF next < oldest_retained(sent)
    THEN [ok |-> FALSE, value |-> NoSignal, next |-> oldest_retained(sent)]
    ELSE [ok |-> TRUE, value |-> sent[next], next |-> next + 1]

InitNetwork ==
    /\ net = IdleNetwork
    /\ rp = IdleReport
    /\ ut = IdleUnsigned
    /\ sw = IdleSweep
    /\ vt = IdleValidate
    /\ InitRegistryIdle
    /\ InitEntryIdle
    /\ InitWritersIdle
    /\ InitBatchIdle
    /\ InitBlockIdle

\* P2PNetwork::broadcast: the message is sent to the channel as a P2PPublish
\* command.
Broadcast ==
    /\ Len(net.sent) < MaxSignals
    /\ \E msg \in Msgs : net' = [net EXCEPT !.sent = Append(net.sent, P2PPublish(msg))]
    /\ UNCHANGED << rp, ut, sw, vt, registry_vars, entry_vars, up, batch_vars, block_vars >>

\* The swarm sends an event to the channel.
SwarmSends ==
    /\ Len(net.sent) < MaxSignals
    /\ \E msg \in Msgs :
        \E signal \in {MessageReceived(msg), P2PPublishSuccess(msg)} :
            net' = [net EXCEPT !.sent = Append(net.sent, signal)]
    /\ UNCHANGED << rp, ut, sw, vt, registry_vars, entry_vars, up, batch_vars, block_vars >>

\* Shutdown is signalled on the termination handle.
SignalShutdown ==
    /\ ~net.term
    /\ net' = [net EXCEPT !.term = TRUE]
    /\ UNCHANGED << rp, ut, sw, vt, registry_vars, entry_vars, up, batch_vars, block_vars >>

\* A call of P2PNetwork::receive.
ReceiveBegin ==
    /\ net.pc \in {"idle", "returned"}
    /\ net' = [net EXCEPT !.pc = "select", !.result = NoSignal]
    /\ UNCHANGED << rp, ut, sw, vt, registry_vars, entry_vars, up, batch_vars, block_vars >>

\* receive, the branch of the select on term.wait_for_shutdown().
ReceiveShutdown ==
    /\ net.pc = "select"
    /\ net.term
    /\ net' = [net EXCEPT !.pc = "returned",
                          !.result = [kind |-> "SignerShutdown", msg |-> 0]]
    /\ UNCHANGED << rp, ut, sw, vt, registry_vars, entry_vars, up, batch_vars, block_vars >>

\* receive, the branch of the select on signal_rx.recv() and the match on
\* what it gave: a MessageReceived event is returned, an error is returned as
\* SignerShutdown, any other signal starts the next turn of the loop.
ReceiveRecv ==
    /\ net.pc = "select"
    /\ net.next <= Len(net.sent)
    /\ LET recv == signal_rx_recv(net.sent, net.next) IN
        net' = IF ~recv.ok
               THEN [net EXCEPT !.next = recv.next, !.pc = "returned",
                                !.result = [kind |-> "SignerShutdown", msg |-> 0]]
               ELSE IF recv.value.kind = "MessageReceived"
               THEN [net EXCEPT !.next = recv.next, !.pc = "returned",
                                !.result = [kind |-> "Ok", msg |-> recv.value.msg]]
               ELSE [net EXCEPT !.next = recv.next]
    /\ UNCHANGED << rp, ut, sw, vt, registry_vars, entry_vars, up, batch_vars, block_vars >>

NextNetwork ==
    \/ Broadcast
    \/ SwarmSends
    \/ SignalShutdown
    \/ ReceiveBegin
    \/ ReceiveShutdown
    \/ ReceiveRecv

SpecNetwork == InitNetwork /\ [][NextNetwork]_vars

\* ------------------------------------------------------------------ claims

Events(history) == {history[i] : i \in DOMAIN history}

\* The events of a history that the reorg around tip keeps, as the
\* specification states it: e.height < T.height, or e.height = T.height and
\* e.hash = T.hash.
KeptBySpec(history, tip) ==
    SelectSeq(history,
              LAMBDA e : \/ e.stacks_block_height < tip.stacks_block_height
                         \/ /\ e.stacks_block_height = tip.stacks_block_height
                            /\ e.stacks_block_hash = tip.stacks_block_hash)

\* C1 (as claimed): after reorganize_around and after every other operation on
\* an entry, its status, last_update_height and last_update_block_hash equal
\* those of the last event of its history, and DepositEntry::validate succeeds.
C1_DenormalizedEqualLastEvent ==
    /\ d_entry.history # << >>
    /\ LET last == d_entry.history[Len(d_entry.history)] IN
        /\ d_entry.status = last.status.tag
        /\ d_entry.last_update_height = last.stacks_block_height
        /\ d_entry.last_update_block_hash = last.stacks_block_hash
    /\ validate(d_entry) = "Ok"

\* C2: after any sequence of accepted updates and reorganizations the history
\* is non-empty, its heights are non-decreasing, and no two events at the same
\* height carry different block hashes.
C2_HistoryInvariants ==
    LET H == d_entry.history IN
    /\ Len(H) >= 1
    /\ \A i, j \in DOMAIN H :
        i < j => /\ H[i].stacks_block_height <= H[j].stacks_block_height
                 /\ (H[i].stacks_block_height = H[j].stacks_block_height
                     => H[i].stacks_block_hash = H[j].stacks_block_hash)

\* Two updates were appended to the created entry, and a reorg then removed one
\* event.
C2_Witness ==
    /\ d_op.kind = "reorg"
    /\ Len(d_before.history) = 3
    /\ Len(d_entry.history) = 2

\* C7: reorganize_around(T) keeps exactly the events with height < T.height, or
\* height = T.height and hash = T.hash, in their original order, and removes
\* every other event of the history.
C7_RetainsExactly ==
    d_op.kind = "reorg" =>
        LET kept == KeptBySpec(d_before.history, d_op.chainstate) IN
        IF kept # << >>
        THEN d_entry.history = kept
        ELSE Events(d_entry.history) \cap Events(d_before.history) = {}

\* The specification's scenario: three events at increasing heights, a tip
\* strictly between the first two; only the first event is left.
C7_Witness ==
    /\ d_op.kind = "reorg"
    /\ Len(d_before.history) = 3
    /\ d_before.history[1].stacks_block_height < d_op.chainstate.stacks_block_height
    /\ d_op.chainstate.stacks_block_height < d_before.history[2].stacks_block_height
    /\ d_before.history[2].stacks_block_height < d_before.history[3].stacks_block_height
    /\ d_entry.history = << d_before.history[1] >>

IsReprocessing(event) == event.status.tag = "Reprocessing"

CountReprocessing(history) ==
    Cardinality({i \in DOMAIN history : IsReprocessing(history[i])})

\* C8: if no event survives reorganize_around(T) the history becomes exactly
\* one Reprocessing event carrying T's height and hash; otherwise no
\* Reprocessing event is added.
C8_ReprocessingIffEmptied ==
    d_op.kind = "reorg" =>
        LET T == d_op.chainstate
            kept == KeptBySpec(d_before.history, T)
        IN IF kept = << >>
           THEN /\ Len(d_entry.history) = 1
                /\ IsReprocessing(d_entry.history[1])
                /\ d_entry.history[1].stacks_block_height = T.stacks_block_height
                /\ d_entry.history[1].stacks_block_hash = T.stacks_block_hash
           ELSE /\ Len(d_entry.history) = Len(kept)
                /\ CountReprocessing(d_entry.history) = CountReprocessing(kept)

\* The specification's scenario: two events, both above the tip, replaced by
\* one Reprocessing event carrying the tip.
C8_Witness ==
    /\ d_op.kind = "reorg"
    /\ Len(d_before.history) = 2
    /\ \A i \in DOMAIN d_before.history :
        d_before.history[i].stacks_block_height > d_op.chainstate.stacks_block_height
    /\ d_entry.history = << reprocessing_event(d_op.chainstate) >>

Deeper(t1, t2) == t1.stacks_block_height < t2.stacks_block_height

\* C10 (as claimed): for T1 strictly deeper than T2 the history produced by
\* reorganize_around(T1) is a subset of the one produced by
\* reorganize_around(T2).
C10_SubsetOfShallower ==
    d_op.kind = "reorg" =>
        \A t2 \in Chainstates :
            Deeper(d_op.chainstate, t2) =>
                Events(d_entry.history)
                    \subseteq Events(reorganize_around(d_before, t2).history)

\* C10 (amended): the subset relation holds whenever reorganize_around(T1)
\* keeps at least one event of the history.
C10_SubsetWhenNotEmptied ==
    d_op.kind = "reorg" =>
        \A t2 \in Chainstates :
            (/\ Deeper(d_op.chainstate, t2)
             /\ KeptBySpec(d_before.history, d_op.chainstate) # << >>) =>
                Events(d_entry.history)
                    \subseteq Events(reorganize_around(d_before, t2).history)

\* A reorg that kept one event of three, where a shallower tip keeps two.
C10_Witness ==
    /\ d_op.kind = "reorg"
    /\ Len(d_before.history) = 3
    /\ Len(d_entry.history) = 1
    /\ d_entry.history[1] = d_before.history[1]
    /\ \E t2 \in Chainstates :
        /\ Deeper(d_op.chainstate, t2)
        /\ Len(reorganize_around(d_before, t2).history) = 2

\* Every set_api_state_status call of Spec.
Calls == {ex[e].claim : e \in Executors} \cup {ex[e].release : e \in Executors} \cup {cw}

\* The transition table of the specification, for the stored status and the
\* requested one.
SpecTable(current, new) ==
    CASE current.kind = "Stable" /\ new.kind = "Stable" ->
            IF current.tip = new.tip
            THEN [outcome |-> "no-op"]
            ELSE [outcome |-> "store", stored |-> Stable(new.tip)]
      [] current.kind = "Stable" /\ new.kind = "Reorg" ->
            [outcome |-> "store", stored |-> Reorg(new.tip)]
      [] current.kind = "Reorg" /\ new.kind = "Stable" ->
            [outcome |-> "store", stored |-> Stable(new.tip)]
      [] current.kind = "Reorg" /\ new.kind = "Reorg" ->
            IF current.tip = new.tip
            THEN [outcome |-> "no-op"]
            ELSE [outcome |-> "InconsistentState"]

C3_CallFollowsTable ==
    \A c \in Calls :
        c.at \in {"write", "returned"} =>
            LET r == SpecTable(c.original_api_state.api_status, c.new_status) IN
            CASE r.outcome = "no-op" -> c.at = "returned" /\ c.ret = "OkNone"
              [] r.outcome = "InconsistentState" ->
                    c.at = "returned" /\ c.ret = "InconsistentState"
              [] r.outcome = "store" ->
                    /\ c.api_state.api_status = r.stored
                    /\ c.at = "returned" => c.ret \in {"OkSome", "InternalServer"}

C3_StateChangesByTable ==
    api_state' # api_state =>
        \E c \in Calls :
            /\ c.at = "write"
            /\ c.original_api_state = api_state
            /\ LET r == SpecTable(api_state.api_status, c.new_status) IN
                /\ r.outcome = "store"
                /\ api_state' = [api_status |-> r.stored,
                                 version |-> api_state.version + 1]

\* C3: every set_api_state_status call follows the transition table for the
\* stored and the requested status (no-op, store, or InconsistentState), and
\* the persisted ApiState changes only by a store of the table.
C3_TransitionTable == [] C3_CallFollowsTable /\ [][C3_StateChangesByTable]_vars

\* All four cells have been taken: a reorg refused for a conflicting reorg, a
\* Stable write that was a no-op, and an executor that set Reorg and then Stable.
C3_Witness ==
    /\ \E e \in Executors : ex[e].claim.ret = "InconsistentState"
    /\ cw.ret = "OkNone"
    /\ \E e \in Executors : ex[e].claim.ret = "OkSome" /\ ex[e].release.ret = "OkSome"

\* An executor is active from its successful set of Reorg(T) until its
\* set of Stable(T) has returned.
Active(e) == ex[e].pc \in {"get_all", "entry_read", "entry_write", "release"}

\* C4 (as claimed): at most one reorg executor is active at any time, under
\* any interleaving with other chainstate writes.
C4_AtMostOneActiveExecutor ==
    \A e1, e2 \in Executors : Active(e1) /\ Active(e2) => e1 = e2

C5_ReorgSetOnlyOnStable ==
    \A e \in Executors :
        (ex[e].claim.ret # "OkSome" /\ ex'[e].claim.ret = "OkSome") =>
            /\ api_state.api_status.kind = "Stable"
            /\ api_state'.api_status = Reorg(ex'[e].tip)
            /\ \A o \in Executors \ {e} : ex'[o].claim = ex[o].claim

C5_LosersOutcome ==
    \A e \in Executors :
        (/\ ex[e].claim.at = "returned"
         /\ ex[e].claim.original_api_state.api_status.kind = "Reorg") =>
            IF ex[e].claim.original_api_state.api_status.tip = ex[e].tip
            THEN ex[e].claim.ret = "OkNone" /\ ex[e].result = "Ok"
            ELSE /\ ex[e].claim.ret = "InconsistentState"
                 /\ ex[e].result = "InconsistentState"

C6_SuccessOnlyAfterStable ==
    [][\A e \in Executors :
          (ex[e].result # "Ok" /\ ex'[e].result = "Ok") =>
              api_state'.api_status = Stable(ex'[e].tip)]_vars

C9_TwiceIsOnce ==
    /\ \A e \in Executors :
        ex[e].pc = "entry_write" =>
            Content(reorganize_around(ex[e].entry, ex[e].tip)) = Content(ex[e].entry)
    /\ \A k \in Keys, tip \in Chainstates :
        LET once == reorganize_around(deposits[k], tip) IN
        Content(reorganize_around(once, tip)) = Content(once)

C9_ReplayChangesNothing ==
    \A e \in Executors :
        (/\ ex[e].replay
         /\ settled.set /\ settled.tip = ex[e].tip
         /\ [ex'[e] EXCEPT !.clean = ex[e].clean] # ex[e]) =>
            \A k \in Keys : Content(deposits'[k]) = Content(deposits[k])

\* C9: reorganize_around(T) applied to its own result changes neither the
\* history nor the denormalized fields, and no step of an execute_reorg_handler
\* call for T that follows an undisturbed completed run for T changes an entry.
C9_Idempotent == [] C9_TwiceIsOnce /\ [][C9_ReplayChangesNothing]_vars

\* A second run for the tip of a completed run, which had emptied a history,
\* has itself completed.
C9_Witness ==
    \E e \in Executors :
        /\ ex[e].replay
        /\ ex[e].pc = "done" /\ ex[e].result = "Ok" /\ ex[e].release.ret = "OkSome"
        /\ settled.set /\ settled.tip = ex[e].tip
        /\ \E k \in Keys : deposits[k].history = << reprocessing_event(ex[e].tip) >>

C12_BoundedAttempts ==
    /\ cw.update_attempts <= MAX_SET_API_STATE_ATTEMPTS_DURING_REORG
    /\ cw.ret = "InternalServer" =>
            cw.update_attempts = MAX_SET_API_STATE_ATTEMPTS_DURING_REORG

C12_WriteStep ==
    (cw.at = "write" /\ cw' # cw) =>
        LET conflict == api_state.version # cw.api_state.version IN
        CASE cw'.at = "returned" /\ cw'.ret = "OkSome" ->
                /\ ~conflict
                /\ api_state' = [api_status |-> cw.api_state.api_status,
                                 version |-> api_state.version + 1]
                /\ cw'.api_state = cw.api_state
          [] cw'.at = "returned" /\ cw'.ret = "InternalServer" ->
                /\ conflict
                /\ cw.update_attempts = MAX_SET_API_STATE_ATTEMPTS_DURING_REORG
                /\ api_state' = api_state
          [] cw'.at = "read" ->
                /\ conflict
                /\ cw.update_attempts < MAX_SET_API_STATE_ATTEMPTS_DURING_REORG
                /\ cw'.update_attempts = cw.update_attempts
                /\ api_state' = api_state
          [] OTHER ->
                /\ cw'.at = "returned" /\ cw'.ret = "Storage"
                /\ api_state' = api_state

C12_ReadStep ==
    (cw.at = "read" /\ cw' # cw) =>
        /\ cw'.update_attempts = cw.update_attempts + 1
        /\ cw'.original_api_state = api_state
        /\ api_state' = api_state

\* C12: set_api_state_status re-reads the ApiState before every write, makes
\* at most 20 attempts, returns InternalServer on the 20th version conflict in
\* a row, returns the state it wrote as soon as a write succeeds, and returns
\* any other error of the write at once.
C12_RetriesUpToTwenty ==
    [] C12_BoundedAttempts /\ [][C12_WriteStep /\ C12_ReadStep]_vars

\* The call gave up after its 20th attempt met a version conflict.
C12_Witness ==
    /\ cw.at = "returned" /\ cw.ret = "InternalServer"
    /\ cw.update_attempts = MAX_SET_API_STATE_ATTEMPTS_DURING_REORG

C11_AtMostFourAttempts ==
    \A e \in Executors : ex[e].attempt < ENTRY_UPDATE_RETRIES

C11_SurfacesInternalServer ==
    \A e \in Executors :
        (/\ ex[e].pc = "entry_write"
         /\ ex[e].attempt = ENTRY_UPDATE_RETRIES - 1
         /\ deposits[Head(ex[e].all_deposits)].version # ex[e].entry.version
         /\ ex'[e].pc # ex[e].pc) =>
            (ex'[e].pc = "done" /\ ex'[e].result = "InternalServer")

\* C11 (as claimed): an entry is read, reorganized and written at most 4
\* times, and when the 4th write meets a version conflict too the executor
\* ends with InternalServer.
C11_FourConflictsSurface ==
    [] C11_AtMostFourAttempts /\ [][C11_SurfacesInternalServer]_vars

C13_StoredChangesByCurrentWriter ==
    \A k \in Keys :
        deposits'[k] # deposits[k] =>
            /\ deposits'[k].version = deposits[k].version + 1
            /\ \/ /\ up.pc = "write" /\ up.update.key = k
                  /\ up.read_version = deposits[k].version
                  /\ up'.result = "Ok"
                  /\ deposits'[k].history =
                        Append(deposits[k].history, up.update.event)
               \/ \E e \in Executors :
                    /\ ex[e].pc = "entry_write" /\ Head(ex[e].all_deposits) = k
                    /\ ex[e].entry.version = deposits[k].version
                    /\ ex'[e].pc # "entry_write"
                    /\ deposits'[k].history =
                          reorganize_around(deposits[k], ex[e].tip).history

C13_UpdaterWrite ==
    (up.pc = "write" /\ up'.pc # "write") =>
        LET k == up.update.key IN
        IF up.read_version = deposits[k].version
        THEN up'.result = "Ok" /\ deposits'[k] # deposits[k]
        ELSE up'.result = "VersionConflict" /\ deposits' = deposits

C13_ExecutorWrite ==
    \A e \in Executors :
        (ex[e].pc = "entry_write" /\ ex'[e].pc # "entry_write") =>
            LET k == Head(ex[e].all_deposits) IN
            IF ex[e].entry.version = deposits[k].version
            THEN deposits'[k] # deposits[k]
            ELSE deposits' = deposits

\* C13: a write of an entry succeeds iff the stored version is the version
\* the writer read, and stores version + 1 with the writer's change applied
\* to the stored entry; a writer that read an older version gets
\* VersionConflict and the stored entry is left as it is.
C13_OptimisticWrites ==
    [][C13_StoredChangesByCurrentWriter /\ C13_UpdaterWrite /\ C13_ExecutorWrite]_vars

\* The applier and the executor read the same version of an entry; the
\* executor's write emptied its history, and the applier's write was refused.
C13_Witness ==
    /\ up.pc = "idle" /\ up.result = "VersionConflict"
    /\ deposits[up.update.key].version = up.read_version + 1
    /\ deposits[up.update.key].history = << reprocessing_event(ex["e1"].tip) >>

C14_RejectsIff ==
    d_entry.history # << >> =>
        LET prev == d_entry.history[Len(d_entry.history)] IN
        \A next \in UpdateEvents :
            LET rejected ==
                    \/ next.stacks_block_height < prev.stacks_block_height
                    \/ /\ next.stacks_block_height = prev.stacks_block_height
                       /\ next.stacks_block_hash # prev.stacks_block_hash
                package == try_from(d_entry, [key |-> d_entry.key, event |-> next])
            IN /\ ensure_following_event_is_valid(prev, next)
                    = (IF rejected THEN "InconsistentState" ELSE "Ok")
               /\ package.result = (IF rejected THEN "InconsistentState" ELSE "Ok")

C14_RejectedLeavesEntry ==
    (d_op.kind = "update" /\ d_op.result # "Ok") =>
        d_entry = d_before

\* C14: ensure_following_event_is_valid(prev, next) gives InconsistentState
\* iff next is below prev, or at prev's height with another hash, and accepts
\* otherwise; an update refused against the latest event gives no package
\* and the entry stays as it is.
C14_FollowingEventCheck ==
    C14_RejectsIff /\ C14_RejectedLeavesEntry

\* An update was refused with InconsistentState by an entry that had accepted
\* one before, and the entry is what it was.
C14_Witness ==
    /\ d_op.kind = "update" /\ d_op.result = "InconsistentState"
    /\ Len(d_entry.history) >= 2
    /\ d_entry = d_before

\* C15: a converted batch holds exactly the submitted updates, each paired
\* with its index in the submitted request, the indexes being those of the
\* request once each, in an order of non-decreasing event height.
C15_SortedWithOriginalIndex ==
    request.result = "Ok" =>
        LET ds == request.deposits IN
        /\ Len(ds) = Len(batch)
        /\ {ds[i].index : i \in DOMAIN ds} = {i - 1 : i \in DOMAIN batch}
        /\ \A i \in DOMAIN ds :
            /\ ds[i].index + 1 \in DOMAIN batch
            /\ ds[i].update.key = batch[ds[i].index + 1].key
            /\ ds[i].update.event.status.tag = batch[ds[i].index + 1].status
            /\ ds[i].update.event.stacks_block_height
                    = batch[ds[i].index + 1].last_update_height
            /\ ds[i].update.event.stacks_block_hash
                    = batch[ds[i].index + 1].last_update_block_hash
        /\ \A i, j \in DOMAIN ds :
            i < j => ds[i].update.event.stacks_block_height
                        <= ds[j].update.event.stacks_block_height

\* Three updates submitted with the highest first: the conversion moved it
\* last and kept its index 0.
C15_Witness ==
    /\ request.result = "Ok"
    /\ Len(batch) = 3
    /\ batch[1].last_update_height > batch[2].last_update_height
    /\ batch[1].status # batch[3].status
    /\ request.deposits[3].index = 0

BatchConflicts ==
    \E i, j \in DOMAIN batch :
        /\ batch[i].last_update_height = batch[j].last_update_height
        /\ batch[i].last_update_block_hash # batch[j].last_update_block_hash

\* C16 (as claimed): for a batch in which two updates carry the same height
\* and different block hashes, inferred_chainstates returns an error.
C16_ConflictingBatchRejected ==
    (BatchConflicts /\ inferred.result # "none") => inferred.result # "Ok"

\* C17: new_block_handler acts only on the events that are committed, come
\* from the sbtc-registry contract of the configured deployer and have the
\* topic "print". Taking any other event from the notification writes no
\* record, adds no update and sends nothing to the registry, and as long as
\* no event has passed the filter the event tables are empty and the answer,
\* once given, is 200.
C17_OnlyKeptEventsAct ==
    (/\ nb'.seen = nb.seen + 1
     /\ ~(/\ nb'.ev.committed
          /\ nb'.ev.contract_event.contract_identifier = SBTC_REGISTRY_IDENTIFIER
          /\ nb'.ev.contract_event.topic = "print"))
    => /\ db' = db
       /\ emily' = emily
       /\ nb'.completed_deposits = nb.completed_deposits
       /\ nb'.updated_withdrawals = nb.updated_withdrawals
       /\ nb'.created_withdrawals = nb.created_withdrawals
       /\ nb'.pc = "events"

C17_NothingKeptNothingWritten ==
    ~nb.kept =>
        /\ db = {}
        /\ nb.completed_deposits = << >>
        /\ nb.updated_withdrawals = << >>
        /\ nb.created_withdrawals = << >>
        /\ nb.pc = "done" => nb.status = 200

C17_EventFilter ==
    [](C17_NothingKeptNothingWritten) /\ [][C17_OnlyKeptEventsAct]_vars

\* A notification with a committed print event of another contract has been
\* answered 200 after the four updates, with empty event tables.
C17_Witness ==
    /\ nb.pc = "done"
    /\ nb.fishy
    /\ ~nb.kept
    /\ nb.seen = MaxEvents
    /\ db = {}
    /\ nb.status = 200
    /\ Len(emily) = 2 * Len(futures)

\* C18: new_block_handler answers 500 exactly when the handling of a kept
\* event failed with a SqlxQuery error. A body that does not deserialize is
\* answered 200 with no write and no registry call, and the answer after the
\* four registry calls is 200 whatever their results.
C18_StatusOfAnswer ==
    nb.pc = "done" =>
        /\ nb.status \in {200, 500}
        /\ nb.status = 500 <=> nb.res = "SqlxQuery"
        /\ ~nb.parsed => (nb.status = 200 /\ db = {} /\ emily = << >>)
        /\ emily # << >> => nb.status = 200

C18_SqlxQueryEndsCall ==
    (nb'.seen = nb.seen + 1 /\ nb'.res = "SqlxQuery")
    => (nb'.pc = "done" /\ nb'.status = 500 /\ emily' = emily)

C18_InternalServerErrorIffSqlxQuery ==
    [](C18_StatusOfAnswer) /\ [][C18_SqlxQueryEndsCall]_vars

\* The update of a kept event could not be built for a SqlxQuery error after
\* its record was written: the call ended with 500 and no registry call.
C18_Witness ==
    /\ nb.pc = "done"
    /\ nb.status = 500
    /\ nb.res = "SqlxQuery"
    /\ db # {}
    /\ emily = << >>

\* C19: an error other than SqlxQuery in the handling of one event (its
\* payload does not parse, its record cannot be written, its update cannot be
\* built) is logged and the handler goes on: a notification that was parsed
\* and answered 200 had the four registry updates sent.
C19_ContinuesAfterOtherError ==
    (nb.pc = "done" /\ nb.parsed /\ nb.status = 200)
    => Len(emily) = 2 * Len(futures)

\* C20: from the end of the loop over the events the handler awaits the four
\* registry calls update_deposits, update_withdrawals, create_withdrawals and
\* set_chainstate, once each, in this order, one after the other, each with
\* its list even when the list is empty; a failed call does not stop the
\* following ones and the answer is 200.
C20_CallsInOrder ==
    /\ Len(emily) <= 2 * Len(futures)
    /\ \A i \in DOMAIN emily :
        /\ emily[i].call = futures[(i + 1) \div 2]
        /\ emily[i].phase = IF i % 2 = 1 THEN "start" ELSE "end"
        /\ emily[i].phase = "start" =>
              emily[i].argument = future_argument(nb, (i + 1) \div 2)
    /\ (nb.pc = "done" /\ nb.future > 0) =>
          (Len(emily) = 2 * Len(futures) /\ nb.status = 200)

C20_OneCallAtATime ==
    emily' # emily =>
        /\ Len(emily') = Len(emily) + 1
        /\ SubSeq(emily', 1, Len(emily)) = emily
        /\ nb.pc = "fanout"

C20_FanOut ==
    [](C20_CallsInOrder) /\ [][C20_OneCallAtATime]_vars

\* No event gave an update and the first call failed: the four calls were
\* made with empty lists and the answer is 200.
C20_Witness ==
    /\ nb.pc = "done"
    /\ nb.status = 200
    /\ Len(emily) = 2 * Len(futures)
    /\ emily[1].argument = << >>
    /\ emily[2].result = "Err"
    /\ emily[8].phase = "end"
    /\ emily[8].call = "set_chainstate"

\* The sum of the amounts of the requests of one kind in a list of requests.
RECURSIVE amount_of(_, _)
amount_of(kind, reqs) ==
    IF reqs = << >> THEN 0
    ELSE (IF Head(reqs).kind = kind THEN Head(reqs).amount ELSE 0)
         + amount_of(kind, Tail(reqs))

\* The number of requests of one kind in a list of requests.
count_of(kind, reqs) == Len(SelectSeq(reqs, LAMBDA r : r.kind = kind))

\* The sum of the output values of a transaction.
RECURSIVE output_total(_)
output_total(outputs) ==
    IF outputs = << >> THEN 0 ELSE Head(outputs).value + output_total(Tail(outputs))

\* C21: the transactions built by construct_transactions form a chain. Input
\* 0 of the first spends the signers' UTXO of signer_state; input 0 of every
\* later one spends output 0 of the transaction before it, identified by that
\* transaction's txid, and is built on the amount of that output. The list
\* returned is the list built.
C21_TransactionsFormChain ==
    LET txs == sw.built IN
    /\ txs # << >> =>
          /\ txs[1].tx.input[1].previous_output = sw.requests.signer_state.utxo.outpoint
          /\ txs[1].signer_utxo.utxo.amount = sw.requests.signer_state.utxo.amount
    /\ \A k \in 1..(Len(txs) - 1) :
          /\ txs[k + 1].tx.input[1].previous_output =
                 [txid |-> compute_txid(txs[k].tx), vout |-> 0]
          /\ txs[k + 1].signer_utxo.utxo.amount = txs[k].tx.output[1].value
          /\ txs[k + 1].signer_utxo.utxo.outpoint =
                 txs[k + 1].tx.input[1].previous_output
    /\ (sw.pc = "done" /\ sw.result = "Ok") => sw.transactions = txs

\* A chain of three transactions was returned, the second one built on an
\* amount other than the one the signers started with.
C21_Witness ==
    /\ sw.pc = "done"
    /\ sw.result = "Ok"
    /\ Len(sw.transactions) >= 3
    /\ sw.transactions[2].signer_utxo.utxo.amount # sw.requests.signer_state.utxo.amount

\* C22: across the transactions returned every deposit request is spent by
\* exactly one input after input 0 and every withdrawal request is paid by
\* exactly one output after output 0; a transaction has one input more than
\* its package has deposits and one output more than it has withdrawals, and
\* no package is empty.
C22_EveryRequestOnce ==
    (sw.pc = "done" /\ sw.result = "Ok") =>
        LET txs == sw.transactions
            spends(d) == {<< k, j >> \in (DOMAIN txs) \X (2..(MaxDeposits + 1)) :
                             /\ j <= Len(txs[k].tx.input)
                             /\ txs[k].tx.input[j].previous_output = d.outpoint}
            pays(w) == {<< k, j >> \in (DOMAIN txs) \X (2..(MaxWithdrawals + 1)) :
                           /\ j <= Len(txs[k].tx.output)
                           /\ txs[k].tx.output[j].script_pubkey = << "withdrawal", w.id >>}
        IN /\ \A i \in DOMAIN sw.requests.deposits :
                 Cardinality(spends(sw.requests.deposits[i])) = 1
           /\ \A i \in DOMAIN sw.requests.withdrawals :
                 Cardinality(pays(sw.requests.withdrawals[i])) = 1
           /\ \A k \in DOMAIN txs :
                 /\ Len(txs[k].tx.input) = count_of("deposit", txs[k].requests) + 1
                 /\ Len(txs[k].tx.output) = count_of("withdrawal", txs[k].requests) + 1
                 /\ txs[k].requests # << >>
                 /\ txs[k].tx.input[1].previous_output.vout = 0
                 /\ txs[k].tx.output[1].script_pubkey = << "signers", 0 >>

\* Two deposits and two withdrawals were packaged, two withdrawals in one
\* transaction.
C22_Witness ==
    /\ sw.pc = "done"
    /\ sw.result = "Ok"
    /\ Len(sw.requests.deposits) = 2
    /\ Len(sw.requests.withdrawals) = 2
    /\ \E k \in DOMAIN sw.transactions : Len(sw.transactions[k].tx.output) = 3

\* C23: the scan fails on a package, with InvalidAmount, iff the withdrawals
\* of the package exceed the amount of the current signers' UTXO plus the
\* deposits of the package.
C23_FailsIffWithdrawalsExceed ==
    (sw.pc = "scan" /\ sw'.packages # sw.packages) =>
        LET package == Head(sw.packages)
            exceeds == amount_of("withdrawal", package) >
                           sw.state.utxo.amount + amount_of("deposit", package)
        IN /\ exceeds <=> (sw'.pc = "done" /\ sw'.result = "InvalidAmount")
           /\ ~exceeds => (sw'.pc = "scan" /\ Len(sw'.built) = Len(sw.built) + 1)

\* A failed call returns no transaction, and the only failure is
\* InvalidAmount; a call without requests returns the empty list.
C23_NoPartialList ==
    sw.pc = "done" =>
        /\ sw.result \in {"Ok", "InvalidAmount"}
        /\ sw.result # "Ok" => sw.transactions = << >>
        /\ (sw.requests.deposits = << >> /\ sw.requests.withdrawals = << >>) =>
              (sw.result = "Ok" /\ sw.transactions = << >>)

\* C23: construct_transactions fails, with InvalidAmount, iff a package taken
\* in the order of the chain has withdrawals above the current signers' UTXO
\* plus its deposits; a failure returns no partial list and no request gives
\* the empty list.
C23_InvalidAmount ==
    [](C23_NoPartialList) /\ [][C23_FailsIffWithdrawalsExceed]_vars

\* The second package failed after the first gave a transaction; a deposit
\* of the failing package was counted.
C23_Witness ==
    /\ sw.pc = "done"
    /\ sw.result = "InvalidAmount"
    /\ Len(sw.built) >= 1
    /\ sw.transactions = << >>

\* C24: in every transaction built the fee per request f is the vsize with
\* dummy signatures times the fee rate, divided by the number of requests and
\* rounded up; every withdrawal output holds its requested amount less f, the
\* signers' output holds the UTXO plus the deposits less the withdrawals,
\* less f for every deposit, and the inputs exceed the outputs by f for
\* every request.
C24_FeePerRequest ==
    \A k \in DOMAIN sw.built :
        LET utx == sw.built[k]
            n == Len(utx.requests)
            f == utx.fee_per_request
            v == vsize(new_transaction(utx.requests, utx.signer_utxo).tx)
            withdrawal_reqs == SelectSeq(utx.requests, LAMBDA r : r.kind = "withdrawal")
            before_fees == utx.signer_utxo.utxo.amount
                               + amount_of("deposit", utx.requests)
                               - amount_of("withdrawal", utx.requests)
            input_total == utx.signer_utxo.utxo.amount + amount_of("deposit", utx.requests)
        IN /\ n = Len(utx.tx.input) + Len(utx.tx.output) - 2
           /\ f * n >= v * utx.signer_utxo.fee_rate
           /\ (f - 1) * n < v * utx.signer_utxo.fee_rate
           /\ \A j \in DOMAIN withdrawal_reqs :
                 utx.tx.output[j + 1].value = withdrawal_reqs[j].amount - f
           /\ utx.tx.output[1].value = before_fees - f * (Len(utx.tx.input) - 1)
           /\ input_total = output_total(utx.tx.output) + f * n

\* C25: whenever construct_transactions succeeds, the inputs of each
\* transaction are at least its outputs and the fee it pays, inputs less
\* outputs, is at least the fee rate times its vsize when signed.
C25_PaysFeeRate ==
    (sw.pc = "done" /\ sw.result = "Ok") =>
        \A k \in DOMAIN sw.transactions :
            LET utx == sw.transactions[k]
                signed_vsize == vsize(new_transaction(utx.requests, utx.signer_utxo).tx)
                input_total == utx.signer_utxo.utxo.amount
                                   + amount_of("deposit", utx.requests)
                fee == input_total - output_total(utx.tx.output)
            IN /\ fee >= 0
               /\ fee >= utx.signer_utxo.fee_rate * signed_vsize

withdrawal_pairs ==
    LET n == IF Len(vt.ctx.tx.output) < 2 THEN 0
             ELSE IF Len(vt.ctx.tx.output) - 2 < Len(vt.ctx.request_ids)
             THEN Len(vt.ctx.tx.output) - 2 ELSE Len(vt.ctx.request_ids)
    IN [i \in 1..n |-> [utxo |-> vt.ctx.tx.output[i + 2],
                        report |-> get_withdrawal_request(vt.ctx.request_ids[i])]]

\* What is wrong with a pair: nothing, no report, a Fulfilled report, another
\* amount or another recipient, the first that applies.
pair_fault(pair) ==
    IF ~pair.report.found THEN "NoReport"
    ELSE IF pair.report.status # "Confirmed" THEN "Fulfilled"
    ELSE IF pair.report.amount # pair.utxo.value THEN "Amount"
    ELSE IF pair.report.recipient # pair.utxo.script_pubkey THEN "Recipient"
    ELSE "None"

\* The fault of the first pair that has one, "None" when no pair has.
first_pair_fault ==
    LET faulty == {i \in DOMAIN withdrawal_pairs : pair_fault(withdrawal_pairs[i]) # "None"}
    IN IF faulty = {} THEN "None"
       ELSE pair_fault(withdrawal_pairs[CHOOSE i \in faulty : \A j \in faulty : i <= j])

output_count_differs ==
    Len(vt.ctx.tx.output) # Len(vt.ctx.request_ids) + 2

\* The first error in a list of check results, "Ok" when there is none.
first_error(results) ==
    LET failing == {i \in DOMAIN results : results[i] # "Ok"}
    IN IF failing = {} THEN "Ok"
       ELSE results[CHOOSE i \in failing : \A j \in failing : i <= j]

signer_input_result == validate_signer_input(vt.ctx).result

signer_output_result == validate_signer_outputs(vt.ctx).result

output_count_result == IF output_count_differs THEN "Withdrawal::Unknown" ELSE "Ok"

deposit_reports_result == validate_deposits(vt.ctx).result

withdrawal_reports_result == withdrawals_loop(withdrawal_reports, vt.ctx, 1).result

\* C27 (as stated): a call of validate that fails one of the checks on the
\* signer input, the signer output, the output count, the deposit reports and
\* the withdrawal reports returns the error of the first of them, in this
\* order, that fails.
C27_OrderOfTheList ==
    LET results == << signer_input_result, signer_output_result, output_count_result,
                      deposit_reports_result, withdrawal_reports_result >>
    IN (vt.pc = "done" /\ first_error(results) # "Ok") =>
           vt.result = first_error(results)

\* C27 (amended): a call of validate that fails one of these checks returns
\* the error of the first that fails in the order signer input, deposit
\* reports, signer output, output count, withdrawal reports.
C27_OrderOfTheCalls ==
    LET results == << signer_input_result, deposit_reports_result, signer_output_result,
                      output_count_result, withdrawal_reports_result >>
    IN (vt.pc = "done" /\ first_error(results) # "Ok") =>
           vt.result = first_error(results)

\* A call returned a deposit's error for a transaction whose first output is
\* not the signers'.
C27_Witness ==
    /\ vt.pc = "done"
    /\ signer_output_result # "Ok"
    /\ deposit_reports_result # "Ok"
    /\ vt.result = deposit_reports_result

\* The fee of the transaction of the call: the inputs' total less the
\* outputs' total. The transaction has the signers' input alone.
tx_fee ==
    validate_signer_input(vt.ctx).amount - output_total(vt.ctx.tx.output)

\* The max_fee of the withdrawal requests of the call, summed.
RECURSIVE max_fee_total(_)
max_fee_total(ids) ==
    IF ids = << >> THEN 0
    ELSE get_withdrawal_request(Head(ids)).max_fee + max_fee_total(Tail(ids))

\* C28: validate accepts no transaction whose fee is above the sum of the
\* max_fee of its requests. Stated for the transactions without deposit
\* inputs, whose requests are the withdrawal requests of the context.
C28_FeeAboveMaxFeeRejected ==
    (vt.pc = "done" /\ vt.result = "Ok" /\ Len(vt.ctx.tx.input) = 1) =>
        tx_fee <= max_fee_total(vt.ctx.request_ids)

WithdrawalErrors ==
    {"Withdrawal::Unknown", "Withdrawal::IncorrectWithdrawalAmount",
     "Withdrawal::IncorrectWithdrawalRecipient"}

earlier_checks_pass ==
    /\ signer_input_result = "Ok"
    /\ deposit_reports_result = "Ok"
    /\ signer_output_result = "Ok"

\* C29 (as stated): when the signer input, deposit and signer output checks
\* pass, validate fails with Withdrawal::Unknown iff the number of outputs is
\* not the number of request ids plus two or some request id has no report.
C29_UnknownIffCountOrNoReport ==
    (vt.pc = "done" /\ earlier_checks_pass) =>
        (vt.result = "Withdrawal::Unknown" <=>
            \/ output_count_differs
            \/ \E i \in DOMAIN vt.ctx.request_ids :
                   ~get_withdrawal_request(vt.ctx.request_ids[i]).found)

\* C29 (amended): when the signer input, deposit and signer output checks
\* pass, validate fails with Withdrawal::Unknown iff the number of outputs is
\* not the number of request ids plus two, or the first pair of a request id
\* and its output that does not pass has no report or a Fulfilled report; the
\* i-th request id is paired with the i-th output after the signers' two, and
\* no withdrawal error is returned when every pair passes.
C29_UnknownIffCountOrFirstPair ==
    (vt.pc = "done" /\ earlier_checks_pass) =>
        /\ vt.result = "Withdrawal::Unknown" <=>
               \/ output_count_differs
               \/ first_pair_fault \in {"NoReport", "Fulfilled"}
        /\ (~output_count_differs /\ first_pair_fault = "None") =>
               vt.result \notin WithdrawalErrors

\* A call failed with Withdrawal::Unknown on a transaction with the right
\* number of outputs, and another on one with another number.
C29_Witness ==
    /\ vt.pc = "done"
    /\ earlier_checks_pass
    /\ vt.result = "Withdrawal::Unknown"
    /\ ~output_count_differs
    /\ first_pair_fault = "NoReport"

\* The answer the rule gives for a pair.
pair_answer(fault) ==
    CASE fault = "None" -> "Ok"
      [] fault = "Fulfilled" -> "Withdrawal::Unknown"
      [] fault = "Amount" -> "Withdrawal::IncorrectWithdrawalAmount"
      [] fault = "Recipient" -> "Withdrawal::IncorrectWithdrawalRecipient"
      [] OTHER -> "Withdrawal::Unknown"

\* C30: WithdrawalRequestReport::validate accepts a pair iff the report is
\* Confirmed and its amount and recipient are the output's; otherwise it
\* fails with Unknown for a Fulfilled report, else IncorrectWithdrawalAmount
\* for another amount, else IncorrectWithdrawalRecipient.
C30_ReportAgainstOutput ==
    \A id \in 1..2, utxo \in WithdrawalOutputs :
        LET report == get_withdrawal_request(id) IN
        withdrawal_report_validate(report, utxo) =
            pair_answer(pair_fault([utxo |-> utxo, report |-> report]))

\* C30: a call that reaches the pairs returns the answer for the first pair
\* that does not pass, and no withdrawal error when every pair passes.
C30_FirstPairDecides ==
    (vt.pc = "done" /\ earlier_checks_pass /\ ~output_count_differs) =>
        IF first_pair_fault = "None"
        THEN vt.result \notin WithdrawalErrors
        ELSE vt.result = pair_answer(first_pair_fault)

C30_WithdrawalReportChecks == C30_ReportAgainstOutput /\ C30_FirstPairDecides

\* A call failed on a pair whose amount and recipient are both not the
\* report's: the amount is reported.
C30_Witness ==
    /\ vt.pc = "done"
    /\ earlier_checks_pass
    /\ ~output_count_differs
    /\ \E i \in DOMAIN withdrawal_pairs :
           LET pair == withdrawal_pairs[i] IN
           /\ pair.report.found
           /\ pair.report.status = "Confirmed"
           /\ pair.report.amount # pair.utxo.value
           /\ pair.report.recipient # pair.utxo.script_pubkey
           /\ \A j \in 1..(i - 1) : pair_fault(withdrawal_pairs[j]) = "None"
    /\ vt.result = "Withdrawal::IncorrectWithdrawalAmount"

\* The greater of two integers.
max_of(a, b) == IF a >= b THEN a ELSE b

\* The lock-time of a report is too close: the age of the deposit, zero when
\* the tip is below the confirmation height, has reached the lock-time less
\* the buffer, zero when the lock-time is below the buffer.
lock_time_too_close(report, chain_tip_height) ==
    max_of(chain_tip_height - report.block_height, 0) >=
        max_of(report.lock_time.value - DEPOSIT_LOCKTIME_BLOCK_BUFFER, 0)

\* C31: DepositRequestReport::validate gives every report one outcome, the
\* first that applies of: Unconfirmed, TxNotOnBestChain; Spent,
\* DepositUtxoSpent; can_sign None, NoVote; can_sign Some(false),
\* CannotSignUtxo; is_accepted not Some(true), RejectedRequest; a lock-time in
\* units of time, UnsupportedLockTime; a lock-time too close, LockTimeExpiry;
\* otherwise Ok.
C31_OutcomeByPrecedence ==
    rp.pc = "done" =>
        rp.result =
            IF rp.report.status = "Unconfirmed" THEN "Deposit::TxNotOnBestChain"
            ELSE IF rp.report.status = "Spent" THEN "Deposit::DepositUtxoSpent"
            ELSE IF rp.report.can_sign = "None" THEN "Deposit::NoVote"
            ELSE IF rp.report.can_sign = "Some(false)" THEN "Deposit::CannotSignUtxo"
            ELSE IF rp.report.is_accepted # "Some(true)" THEN "Deposit::RejectedRequest"
            ELSE IF rp.report.lock_time.unit = "Time" THEN "Deposit::UnsupportedLockTime"
            ELSE IF lock_time_too_close(rp.report, rp.chain_tip_height)
            THEN "Deposit::LockTimeExpiry"
            ELSE "Ok"

\* A report that the signer cannot sign for and has voted against was given
\* CannotSignUtxo.
C31_Witness ==
    /\ rp.pc = "done"
    /\ rp.report.status = "Confirmed"
    /\ rp.report.can_sign = "Some(false)"
    /\ rp.report.is_accepted = "Some(false)"
    /\ rp.report.lock_time.unit = "Time"
    /\ rp.result = "Deposit::CannotSignUtxo"

\* A validated report that is Confirmed, can be signed for, is accepted and
\* has a lock-time in blocks.
lock_time_decides ==
    /\ rp.pc = "done"
    /\ rp.report.status = "Confirmed"
    /\ rp.report.can_sign = "Some(true)"
    /\ rp.report.is_accepted = "Some(true)"
    /\ rp.report.lock_time.unit = "Blocks"

\* C32 (as stated): such a report with confirmation height h is rejected at
\* chain tip height H with LockTimeExpiry iff H - h >= lock_time - BUFFER
\* over the integers, and passes otherwise.
C32_ExpiryOverIntegers ==
    lock_time_decides =>
        IF rp.chain_tip_height - rp.report.block_height >=
               rp.report.lock_time.value - DEPOSIT_LOCKTIME_BLOCK_BUFFER
        THEN rp.result = "Deposit::LockTimeExpiry"
        ELSE rp.result = "Ok"

\* C32 (amended): such a report is rejected with LockTimeExpiry iff
\* max(H - h, 0) >= max(lock_time - BUFFER, 0), and passes otherwise; for
\* H >= h this is H - h >= lock_time - BUFFER, and with h = 0 and H = 2 the
\* lock-time BUFFER + 2 is rejected and BUFFER + 3 passes.
C32_ExpiryWithSaturation ==
    lock_time_decides =>
        /\ IF lock_time_too_close(rp.report, rp.chain_tip_height)
           THEN rp.result = "Deposit::LockTimeExpiry"
           ELSE rp.result = "Ok"
        /\ rp.chain_tip_height >= rp.report.block_height =>
               (rp.result = "Deposit::LockTimeExpiry" <=>
                    rp.chain_tip_height - rp.report.block_height >=
                        rp.report.lock_time.value - DEPOSIT_LOCKTIME_BLOCK_BUFFER)
        /\ (rp.report.block_height = 0 /\ rp.chain_tip_height = 2) =>
               /\ rp.report.lock_time.value = DEPOSIT_LOCKTIME_BLOCK_BUFFER + 2 =>
                      rp.result = "Deposit::LockTimeExpiry"
               /\ rp.report.lock_time.value = DEPOSIT_LOCKTIME_BLOCK_BUFFER + 3 =>
                      rp.result = "Ok"

\* A report confirmed above the chain tip whose lock-time is the buffer was
\* rejected with LockTimeExpiry.
C32_Witness ==
    /\ lock_time_decides
    /\ rp.chain_tip_height < rp.report.block_height
    /\ rp.report.lock_time.value = DEPOSIT_LOCKTIME_BLOCK_BUFFER
    /\ rp.result = "Deposit::LockTimeExpiry"

\* C33: a call of execute_reorg_handler made with the canonical tip T of a
\* call that a storage error ended after it had set Reorg(T) returns with
\* success, and when it returns the ApiState is Stable(T) and no entry is
\* left with an update above the height of T.
C33_ReplayEndsStable ==
    [][(ex[Replayer].pc # "done" /\ ex'[Replayer].pc = "done") =>
          /\ ex'[Replayer].result = "Ok"
          /\ api_state'.api_status = Stable(ex'[Replayer].tip)
          /\ get_all_deposit_entries_modified_after_height(
                 deposits', ex'[Replayer].tip.stacks_block_height) = << >>]_vars

\* C34: a transaction built by UnsignedTransaction::new passes the
\* validate_withdrawals of a signer that has each of its withdrawal requests
\* on record as Confirmed with the same amount and recipient, when it is
\* presented with the ids of those requests.
C34_BuiltTransactionPasses ==
    ut.pc = "validated" => ut.validation = "Ok"

\* The signers' amount over the integers: the UTXO's amount plus the
\* deposits less the withdrawals of the call.
exact_signer_amount ==
    ut.state.utxo.amount + amount_of("deposit", ut.requests)
        - amount_of("withdrawal", ut.requests)

\* C39: for all unsigned amounts compute_signer_amount returns the signers'
\* amount over the integers when that is not negative and InvalidAmount
\* when it is, and neither a cast nor the running sum wraps or overflows.
C39_ExactForAllAmounts ==
    ut.pc # "idle" =>
        /\ ~ut.signer_amount.overflow
        /\ ut.result # "panic: arithmetic overflow"
        /\ IF exact_signer_amount >= 0
           THEN ut.signer_amount.ok /\ ut.signer_amount.amount = exact_signer_amount
           ELSE ~ut.signer_amount.ok /\ ut.signer_amount.error = "InvalidAmount"

\* C40: UnsignedTransaction::new on no request returns a transaction with
\* the signers' input and the signers' output alone, the amount of the
\* output that of the UTXO. Stated for UTXO amounts within the signed range.
C40_NoRequestGivesSignerOnly ==
    (ut.pc # "idle" /\ ut.requests = << >>
        /\ ut.state.utxo.amount < 2^(AmountBits - 1)) =>
        /\ ut.result = "Ok"
        /\ Len(ut.utx.tx.input) = 1
        /\ Len(ut.utx.tx.output) = 1
        /\ ut.utx.tx.output[1].value = ut.state.utxo.amount

\* The ids of the events whose update is in one of the three lists.
listed(x) ==
    {x.completed_deposits[i] : i \in DOMAIN x.completed_deposits} \cup
    {x.updated_withdrawals[i] : i \in DOMAIN x.updated_withdrawals} \cup
    {x.created_withdrawals[i] : i \in DOMAIN x.created_withdrawals}

\* C35: the step of the loop that handles an event: when the update could
\* not be built for a missing bitcoin transaction or stacks block, the
\* record of the event is in the local storage and no update for it is in a
\* list; an update is put into a list only with its record stored; the
\* other events' records and updates are left as they were.
C35_RecordThenUpdate ==
    (/\ nb.pc = "events"
     /\ nb'.seen = nb.seen + 1
     /\ kept_event(nb'.ev, SBTC_REGISTRY_IDENTIFIER)
     /\ try_new(nb'.ev.contract_event.value).ok) =>
        LET id == nb'.seen
            record == [table |-> nb'.ev.contract_event.value, id |-> id]
        IN /\ nb'.res \in {"BitcoinTxMissing", "MissingBlock"} =>
                  record \in db' /\ id \notin listed(nb')
           /\ id \in listed(nb') => record \in db' /\ nb'.res = "Ok"
           /\ db \subseteq db' /\ db' \subseteq db \cup {record}
           /\ listed(nb) \subseteq listed(nb') /\ listed(nb') \subseteq listed(nb) \cup {id}

\* C35: the fan-out sends updates only for events whose record is stored.
C35_FanOutOfStored ==
    \A i \in DOMAIN emily :
        \A j \in DOMAIN emily[i].argument :
            \E record \in db : record.id = emily[i].argument[j]

C35_WriteBeforeBuild == [](C35_FanOutOfStored) /\ [][C35_RecordThenUpdate]_vars

\* The record of a withdrawal-create event is stored, its stacks block was
\* missing, and the fan-out has sent create_withdrawals without it.
C35_Witness ==
    /\ nb.res = "MissingBlock"
    /\ [table |-> "withdrawal-create", id |-> nb.seen] \in db
    /\ nb.seen \notin listed(nb)
    /\ \E i \in DOMAIN emily :
           emily[i].call = "create_withdrawals" /\ emily[i].phase = "start"

\* The requested status meets itself, or a reorg meets a different reorg.
same_status(new_status, current) ==
    new_status.kind = current.kind /\ new_status.tip = current.tip

other_reorg(new_status, current) ==
    new_status.kind = "Reorg" /\ current.kind = "Reorg" /\ new_status.tip # current.tip

no_write_return(call) ==
    call.at = "returned" /\ call.ret \in {"OkNone", "InconsistentState"}

\* A read of set_api_state_status that finds the requested status stored, or
\* a different reorg in progress, returns Ok(None), respectively
\* InconsistentState, and leaves the persisted ApiState as it is.
C36_ReadStep ==
    (cw.at \in {"none", "returned", "read"} /\ cw' # cw) =>
        /\ api_state' = api_state
        /\ same_status(cw'.new_status, api_state.api_status) =>
               cw'.at = "returned" /\ cw'.ret = "OkNone"
        /\ other_reorg(cw'.new_status, api_state.api_status) =>
               cw'.at = "returned" /\ cw'.ret = "InconsistentState"
        /\ no_write_return(cw') =>
               \/ same_status(cw'.new_status, api_state.api_status)
               \/ other_reorg(cw'.new_status, api_state.api_status)
        /\ cw.at \in {"none", "returned"} => cw'.update_attempts = 1
        /\ cw.at = "read" => cw'.update_attempts = cw.update_attempts + 1

\* A write of the call that changes the persisted ApiState ends the call with
\* the written state; the other ends of the call come from a read.
C36_WriteStep ==
    (cw.at = "write" /\ cw' # cw) =>
        /\ ~no_write_return(cw')
        /\ api_state' # api_state => cw'.at = "returned" /\ cw'.ret = "OkSome"

\* C36 as stated: a call that ends with Ok(None) or InconsistentState has
\* written nothing and has returned on its first read.
C36_ReturnsOnFirstRead ==
    /\ [](no_write_return(cw) => cw.update_attempts = 1)
    /\ [][C36_ReadStep /\ C36_WriteStep]_vars

\* C36: a call that ends with Ok(None) or InconsistentState has written
\* nothing: it returns at the read that finds the requested status stored or
\* a different reorg in progress, which is its first read when the call is
\* made on such a state and a later read when earlier writes of the call met
\* version conflicts, each such read counting one attempt.
C36_NoWriteOnNoOp ==
    /\ [](no_write_return(cw) =>
              cw.update_attempts \in 1..MAX_SET_API_STATE_ATTEMPTS_DURING_REORG)
    /\ [][C36_ReadStep /\ C36_WriteStep]_vars

\* The call found its status stored by another writer on its second read.
C36_Witness ==
    /\ cw.at = "returned" /\ cw.ret = "OkNone"
    /\ cw.update_attempts = 2
    /\ same_status(cw.new_status, api_state.api_status)
    /\ cw.original_api_state = api_state

\* A reorg was requested while a different reorg is in progress.
C36_InconsistentWitness ==
    /\ cw.at = "returned" /\ cw.ret = "InconsistentState"
    /\ cw.update_attempts = 1

shutdown_returned(n) == n.pc = "returned" /\ n.result.kind = "SignerShutdown"

\* The positions at or after the cursor, among the retained values, that hold
\* a MessageReceived event.
available_messages(n) ==
    {i \in oldest_retained(n.sent)..Len(n.sent) :
        i >= n.next /\ n.sent[i].kind = "MessageReceived"}

\* A receive call returns Ok(msg) only for a MessageReceived event, the first
\* one at or after the receiver's cursor, and passes over the signals of any
\* other kind before it.
C37_ReturnsNextMessage ==
    (net.pc = "select" /\ net'.pc = "returned" /\ net'.result.kind = "Ok") =>
        /\ net.next \in available_messages(net)
        /\ net'.result.msg = net.sent[net.next].msg
        /\ net'.next = net.next + 1

C37_SkipsOtherSignals ==
    (net.pc = "select" /\ net'.pc = "select" /\ net' # net /\ net'.sent = net.sent
        /\ net'.term = net.term) =>
        /\ net.sent[net.next].kind # "MessageReceived"
        /\ net'.next = net.next + 1

\* C37: a receiver that fell behind the channel misses only the overwritten
\* signals; receive returns the next available MessageReceived message,
\* passes over every other kind of signal, and returns SignerShutdown only
\* when shutdown has been signalled (the channel is not closed while the
\* P2PNetwork holds its sender).
C37_ShutdownOnlyOnTermination ==
    /\ [](shutdown_returned(net) => net.term)
    /\ [][C37_ReturnsNextMessage /\ C37_SkipsOtherSignals]_vars

\* The two parts of C37 about the messages alone.
C37_MessagesOnly == [][C37_ReturnsNextMessage /\ C37_SkipsOtherSignals]_vars

\* After the error of a lagging recv, a later receive returned a message.
C37_LaterReceiveWitness ==
    /\ net.pc = "returned" /\ net.result.kind = "Ok"
    /\ net.next > ChannelCapacity + 1
    /\ ~net.term

\* receive returned SignerShutdown with no shutdown signalled.
C37_LagWitness == shutdown_returned(net) /\ ~net.term

\* The update has status Confirmed and carries no fulfillment.
confirmed_without_fulfillment(update) ==
    update.status = "Confirmed" /\ update.fulfillment = "none"

\* api::models::common::Status, every variant, with or without a fulfillment.
AnyStatusUpdates ==
    {[key |-> "k1", status |-> status, fulfillment |-> fulfillment,
      last_update_height |-> 0, last_update_block_hash |-> "a"] :
        status \in {"Pending", "Reprocessing", "Accepted", "Confirmed", "Failed"},
        fulfillment \in {"none", "f1", "f2"}}

\* The conversion of one update fails exactly for Confirmed without a
\* fulfillment; a Confirmed event carries the supplied fulfillment, an event
\* of another status carries none.
C38_OneUpdate ==
    \A update \in AnyStatusUpdates :
        LET validated == validated_deposit_update(update) IN
        IF confirmed_without_fulfillment(update)
        THEN validated.result = "InternalServer"
        ELSE /\ validated.result = "Ok"
             /\ validated.update.event.status.tag = update.status
             /\ validated.update.event.status.fulfillment =
                    IF update.status = "Confirmed" THEN update.fulfillment ELSE "none"

\* C38: the conversion of a batch fails with InternalServer and produces no
\* update when some update of the batch is Confirmed without a fulfillment;
\* otherwise every update of the batch is converted, whatever its status and
\* whether or not it carries a fulfillment, and the event of a Confirmed
\* update carries exactly the fulfillment that was supplied.
C38_AllOrNothing ==
    /\ C38_OneUpdate
    /\ request.result # "none" =>
        IF \E i \in DOMAIN batch : confirmed_without_fulfillment(batch[i])
        THEN request.result = "InternalServer" /\ request.deposits = << >>
        ELSE /\ request.result = "Ok"
             /\ Len(request.deposits) = Len(batch)
             /\ \A i \in DOMAIN request.deposits :
                    LET update == batch[request.deposits[i].index + 1]
                        event == request.deposits[i].update.event
                    IN /\ event.status.tag = update.status
                       /\ update.status = "Confirmed" =>
                              event.status.fulfillment = update.fulfillment

\* A batch of three whose last update is Confirmed without a fulfillment and
\* whose other updates would convert: nothing was produced.
C38_Witness ==
    /\ request.result = "InternalServer"
    /\ request.deposits = << >>
    /\ Len(batch) = 3
    /\ batch[1].status = "Confirmed" /\ batch[1].fulfillment = "f1"
    /\ batch[2].status = "Accepted" /\ batch[2].fulfillment = "f1"
    /\ confirmed_without_fulfillment(batch[3])

====
